---- MODULE Spec2Model ----
(***************************************************************************)
(* The crawl-and-change-detection engine of crawler/crawler.py, with the   *)
(* ledger operations of crawler/db.py and the fingerprint of               *)
(* crawler/utils.py; the read API of api/main.py behind api/auth.py; and   *)
(* the job of scheduler/scheduler.py.                                      *)
(*                                                                         *)
(* Coroutines interleave only at their awaits, so every action below is    *)
(* the code that runs from one await's completion to the next await.       *)
(* A MongoDB operation takes effect and returns in one step, or fails      *)
(* without effect.                                                         *)
(*                                                                         *)
(* Text is a sequence of one-character strings; a field value is a tagged  *)
(* pair <<tag, payload>> so that Python's None, str, int and float values  *)
(* stay distinct while str() of them may coincide.                         *)
(***************************************************************************)
EXTENDS Integers, Sequences, FiniteSets, TLC

VARIABLES
    width,        \* the concurrency the Crawler was constructed with
    retries,      \* the module's RETRIES, read from CRAWL_RETRIES at import
    sem,          \* Crawler.semaphore: the number of free slots
    runPc,        \* where Crawler.run is: idle, ageout, discover, gather, returned, aborted
    runNo,        \* how many times run() has been called
    clock,        \* datetime.now(timezone.utc), at the resolution of one run
    agePending,   \* mark_all_changes_as_old has been issued and not yet completed
    agedRun,      \* the run whose age-out completed most recently (0: none yet)
    sinceAge,     \* the change-log ids present at that age-out, and the appends since
    disc,         \* get_all_book_links' locals: page_url, book_links; the pages fetched
    f,            \* per caller of Crawler.fetch (0: discovery, t: task t): the call's state
    task,         \* per task of run()'s task list: process_book's locals and position
    returned,     \* what run() returned
    books,        \* db.books: _id -> document
    snapshots,    \* db.book_snapshots: a set of documents
    change_log,   \* db.change_log: a set of documents
    web,          \* the listing pages of the site: url -> its item links and next link
    api,          \* the API's configured key and the HTTP request it is serving
    sched,        \* where scheduled_crawl is, and what it has called
    script        \* where main() of another crawler process is

vars == <<width, retries, sem, runPc, runNo, clock, agePending, agedRun, sinceAge, disc, f, task,
          returned, books, snapshots, change_log, web, api, sched, script>>

ledger == <<books, snapshots, change_log>>

config == <<width, retries>>

(* What no step of the crawler changes: the site, the API, the scheduler and
   the other crawler process. *)
around == <<web, api, sched, script>>

----------------------------------------------------------------------------
(* Bounds of the model *)

(* The runs of one behaviour. *)
MaxRuns == 2

(* The concurrency of the crawler that runs. *)
RunWidth == 1

(* The concurrencies and retry counts fetch is called under on its own. *)
MaxWidth == 2
MaxRetries == 3

(* The listing pages one discovery fetches: the loop of get_all_book_links has
   no bound of its own. *)
MaxFetches == 4

(* The pages, page sizes and limits the API is asked for. *)
MaxPage == 2
MaxPageSize == 2
MaxLimit == 2

(* CRAWL_RETRIES' default *)
RETRIES == 3

----------------------------------------------------------------------------
(* Values *)

None == <<"none", <<>>>>
S(cs) == <<"s", cs>>
Num(cs) == <<"n", cs>>
Url(segs) == <<"u", segs>>
Oid(o) == <<"oid", o>>
(* str(ObjectId): the text of the id, no longer an ObjectId. *)
StrOid(oid) == <<"oidstr", oid[2]>>
Time(t) == <<"t", <<t>>>>
(* A local that holds a page, a record or an exception and is not bound yet. *)
Unbound == [unbound |-> TRUE]
(* A number that is compared as a number. *)
I(n) == <<"i", <<n>>>>

RECURSIVE JoinTexts(_, _)
JoinTexts(texts, sep) ==
    IF texts = <<>> THEN <<>>
    ELSE IF Len(texts) = 1 THEN texts[1]
    ELSE texts[1] \o sep \o JoinTexts(Tail(texts), sep)

(* str(v) as Python prints the value. *)
Str(v) ==
    CASE v[1] = "none" -> <<"N", "o", "n", "e">>
      [] v[1] = "u" -> JoinTexts([i \in 1..Len(v[2]) |-> <<v[2][i]>>], <<"/">>)
      [] OTHER -> v[2]

Get(d, k, default) == IF k \in DOMAIN d THEN d[k] ELSE default

----------------------------------------------------------------------------
(* crawler/utils.py *)

(* keys with source_url among them. *)
HashKeys_with_url ==
    <<"title", "description", "category", "price_including_tax",
      "price_excluding_tax", "availability", "num_reviews", "image_url", "rating",
      "source_url">>

HashKeys ==
    <<"title", "description", "category", "price_including_tax",
      "price_excluding_tax", "availability", "num_reviews", "image_url", "rating">>

(* "|".join(str(book_dict.get(k, "")) for k in keys); SHA-256 is taken to be
   collision-free, so the digest is modelled by the text it digests. *)
compute_hash_for_book(book_dict) ==
    S(JoinTexts([i \in 1..Len(HashKeys) |-> Str(Get(book_dict, HashKeys[i], S(<<>>)))],
                <<"|">>))

----------------------------------------------------------------------------
(* crawler/crawler.py: parsing *)

Digits == {"0", "1", "2", "3", "4", "5", "6", "7", "8", "9"}

IsDigitOrDot(c) == c \in Digits \cup {"."}

IsDot(c) == c = "."

IsDigit(c) == c \in Digits

RECURSIVE StripLeadingZeros(_)
StripLeadingZeros(cs) ==
    IF cs = <<>> THEN <<"0">>
    ELSE IF cs[1] = "0" /\ Len(cs) > 1 THEN StripLeadingZeros(Tail(cs))
    ELSE cs

RECURSIVE StripTrailingZeros(_)
StripTrailingZeros(cs) ==
    IF cs = <<>> THEN <<"0">>
    ELSE IF cs[Len(cs)] = "0" /\ Len(cs) > 1
         THEN StripTrailingZeros(SubSeq(cs, 1, Len(cs) - 1))
    ELSE cs

(* The position of the first "." of cs, or Len(cs) + 1. *)
DotAt(cs) ==
    IF \E i \in 1..Len(cs) : cs[i] = "."
    THEN CHOOSE i \in 1..Len(cs) : cs[i] = "." /\ \A j \in 1..(i - 1) : cs[j] # "."
    ELSE Len(cs) + 1

(* float(m) accepts digits with at most one point and at least one digit. *)
IsFloatText(m) ==
    /\ Len(SelectSeq(m, IsDot)) <= 1
    /\ Len(SelectSeq(m, IsDigit)) >= 1

(* str(float(m)) for the short decimal texts of the model (no exponent form). *)
FloatStr(m) ==
    StripLeadingZeros(SubSeq(m, 1, DotAt(m) - 1)) \o <<".">>
        \o StripTrailingZeros(SubSeq(m, DotAt(m) + 1, Len(m)))

money_to_float(s) ==
    IF s = None \/ s[2] = <<>> THEN None
    ELSE LET m == SelectSeq(s[2], IsDigitOrDot)
         IN IF IsFloatText(m) THEN Num(FloatStr(m)) ELSE None

(* table[th] = td over the rows in document order: the last row of a header wins. *)
TableGet(rows, th, default) ==
    IF \E i \in 1..Len(rows) : rows[i][1] = th
    THEN S(rows[CHOOSE i \in 1..Len(rows) :
                  rows[i][1] = th /\ \A j \in (i + 1)..Len(rows) : rows[j][1] # th][2])
    ELSE default

IsIntText(cs) == cs # <<>> /\ \A i \in 1..Len(cs) : cs[i] \in Digits

RatingWords == <<"One", "Two", "Three", "Four", "Five">>

IsRatingWord(c) == \E i \in 1..5 : RatingWords[i] = c

RatingDigits == <<"1", "2", "3", "4", "5">>

(* The first class of the .star-rating element that is a key of the mapping. *)
parse_rating(classes) ==
    IF classes = None \/ SelectSeq(classes[2], IsRatingWord) = <<>> THEN None
    ELSE LET c == SelectSeq(classes[2], IsRatingWord)[1]
         IN Num(<<RatingDigits[CHOOSE i \in 1..5 : RatingWords[i] = c]>>)

(* urljoin(base, rel) on path segments: rel replaces base's last segment, and a
   ".." segment removes the one before it. *)
RECURSIVE Resolve(_, _)
Resolve(dir, rel) ==
    IF rel = <<>> THEN dir
    ELSE IF rel[1] = ".."
         THEN Resolve(IF dir = <<>> THEN dir ELSE SubSeq(dir, 1, Len(dir) - 1), Tail(rel))
    ELSE Resolve(Append(dir, rel[1]), Tail(rel))

urljoin(base, rel) == Resolve(SubSeq(base, 1, Len(base) - 1), rel)

(* parsed.path.rstrip("/").split("/")[-2] *)
BookId(url) ==
    LET parts == <<"">> \o url
    IN parts[Len(parts) - 1]

(* int(table.get("Number of reviews")) without its default: a table without
   the row raises as well. *)
ParseRaises_nodefault(html) ==
    \/ html.product /\ html.h1 = None
    \/ LET n == TableGet(html.table, "Number of reviews", S(<<>>))
       IN ~IsIntText(n[2])

(* Whether parse_book raises: a .product_page without an h1, or a review count
   that int() rejects. *)
ParseRaises(html) ==
    \/ html.product /\ html.h1 = None
    \/ LET n == TableGet(html.table, "Number of reviews", S(<<"0">>))
       IN ~IsIntText(n[2])

parse_book_fields(html, url) ==
    [_id |-> S(<<BookId(url)>>),
     title |-> IF html.product THEN html.h1 ELSE None,
     description |-> html.desc,
     category |-> IF Len(html.crumbs) >= 3 THEN S(html.crumbs[3]) ELSE None,
     price_including_tax |-> money_to_float(TableGet(html.table, "Price (incl. tax)", None)),
     price_excluding_tax |-> money_to_float(TableGet(html.table, "Price (excl. tax)", None)),
     availability |-> TableGet(html.table, "Availability", None),
     num_reviews |->
         Num(StripLeadingZeros(TableGet(html.table, "Number of reviews", S(<<"0">>))[2])),
     image_url |-> IF html.img = None THEN None ELSE Url(urljoin(url, html.img[2])),
     rating |-> parse_rating(html.rating),
     source_url |-> Url(url),
     crawl_timestamp |-> Time(clock)]

(* The hash taken before the rating is in the record. *)
parse_book_early(html, url) ==
    LET data == parse_book_fields(html, url)
    IN data @@ [content_hash |->
                   compute_hash_for_book([k \in DOMAIN data \ {"rating"} |-> data[k]])]

parse_book(html, url) ==
    LET data == parse_book_fields(html, url)
    IN data @@ [content_hash |-> compute_hash_for_book(data)]

----------------------------------------------------------------------------
(* The site that is crawled: two listing pages, the second repeating a link
   of the first, and the detail pages they link. *)

FirstPage == <<"catalogue", "page-1.html">>

Listing ==
    (<<"catalogue", "page-1.html">> :>
        [links |-> << <<"b1", "index.html">>, <<"b2", "index.html">> >>,
         next |-> <<"page-2.html">>])
    @@
    (<<"catalogue", "page-2.html">> :>
        [links |-> << <<"b2", "index.html">> >>,
         next |-> <<>>])

(* A detail page with the given price cells. *)
GoodDoc(price) ==
    [product |-> TRUE,
     h1 |-> S(<<"T">>),
     desc |-> S(<<"D">>),
     crumbs |-> << <<"H">>, <<"B">>, <<"C">> >>,
     table |-> << <<"Price (excl. tax)", price>>,
                  <<"Price (incl. tax)", price>>,
                  <<"Availability", <<"I">> >>,
                  <<"Number of reviews", <<"0">> >> >>,
     img |-> S(<<"..", "..", "media", "c.jpg">>),
     rating |-> S(<<"star-rating", "Three">>)]

DocA == GoodDoc(<<"L", "5", "1", ".", "7", "7">>)

DocB == GoodDoc(<<"L", "5", "3", ".", "7", "0">>)

(* A detail page whose .product_page holds no h1. *)
NoTitleDoc == [DocA EXCEPT !.h1 = None]

(* A detail page without a .product_page element. *)
NoProductDoc == [DocA EXCEPT !.product = FALSE, !.h1 = None]

DetailDocs == {DocA, DocB, NoTitleDoc, NoProductDoc}

(* The bodies a successful GET of url may carry: the first item's page comes
   with either price or without its h1, the second item's page with or without
   its .product_page. *)
Served(url) ==
    IF url \in DOMAIN web THEN {web[url]}
    ELSE IF BookId(url) = "b1" THEN {DocA, DocB, NoTitleDoc}
    ELSE {DocA, NoProductDoc}

Callers ==
    0..(Len(Listing[FirstPage].links) + Len(Listing[<<"catalogue", "page-2.html">>].links))

Tasks == Callers \ {0}

----------------------------------------------------------------------------
(* crawler/db.py *)

(* db.books.find_one({"_id": id}): <<the document>>, or <<>> for Python's None. *)
find_one(bks, id) == IF id \in DOMAIN bks THEN <<bks[id]>> ELSE <<>>

(* A write that leaves the collection with the one document. *)
upsert_book_only(bks, book_dict) == book_dict["_id"][2][1] :> book_dict

(* update_one({"_id": id}, {"$set": book_dict}, upsert=True): the document's
   fields named by book_dict take its values, its other fields stay. *)
upsert_book(bks, book_dict) ==
    LET id == book_dict["_id"][2][1]
        doc == IF id \in DOMAIN bks THEN book_dict @@ bks[id] ELSE book_dict
    IN (id :> doc) @@ bks

(* insert_one gives the document a fresh ObjectId. *)
insert_snapshot(snaps, snapshot, oid) == snaps \cup {[_id |-> Oid(oid)] @@ snapshot}

(* update_one in the place of update_many: one entry is marked, the others
   stay as they are. *)
mark_all_changes_as_old_one(log) ==
    IF log = {} THEN log
    ELSE LET first == CHOOSE e \in log : TRUE
         IN (log \ {first}) \cup {[first EXCEPT !.recent = "old"]}

(* update_many({}, {"$set": {"recent": "old"}}) *)
(* An update that matches no entry. *)
mark_all_changes_as_old_none(log) == log

mark_all_changes_as_old(log) == {[e EXCEPT !.recent = "old"] : e \in log}

(* log_change_entry without its "recent": "new". *)
change_doc_old(book_id, change_type, now) ==
    [book_id |-> book_id, change_type |-> change_type, recent |-> "old", timestamp |-> now]

(* The document log_change_entry builds. *)
change_doc(book_id, change_type, now) ==
    [book_id |-> book_id, change_type |-> change_type, recent |-> "new", timestamp |-> now]

(* replace_one({"book_id": ...}, doc, upsert=True): one entry per item. *)
insert_change_per_book(log, doc, oid) ==
    {e \in log : e.book_id # doc.book_id} \cup {[_id |-> Oid(oid)] @@ doc}

(* db.change_log.insert_one(doc), which also sets doc["_id"]. *)
insert_change(log, doc, oid) == log \cup {[_id |-> Oid(oid)] @@ doc}

----------------------------------------------------------------------------
(* Crawler.fetch *)

IdleFetch ==
    [pc |-> "idle", url |-> <<>>, attempt |-> 0, wire |-> <<>>, slept |-> <<>>,
     result |-> Unbound, exc |-> Unbound]

(* A call of fetch(url): it first waits for the semaphore. *)
FetchCall(url) == [IdleFetch EXCEPT !.pc = "wait", !.url = url]

(* A gate that lets one call too many through. *)
SlotFree_lax(s) == s >= 0

(* A gate that opens only while a second slot is free. *)
SlotFree_two(s) == s > 1

(* async with self.semaphore: a slot is there to take. *)
SlotFree(s) == s > 0

(* An exit that keeps the slot. *)
Release_leak(s) == s

(* The end of the async with block, by return or by raise: the slot is given
   back. *)
Release(s) == s + 1

(* range(RETRIES + 1) *)
HasNextAttempt_more(a) == a + 1 <= retries

(* range(RETRIES) has another attempt after attempt number a. *)
HasNextAttempt(a) == a + 1 < retries

(* The success path without its return: it falls through to the sleep. *)
FetchOnOk_through(fc, body) ==
    [fc EXCEPT !.pc = "sleep", !.wire = Append(@, <<"ok", body>>),
               !.slept = Append(@, 1 + fc.attempt * 2)]

(* return resp.text *)
FetchOnOk(fc, body) ==
    [fc EXCEPT !.pc = "returned", !.result = body, !.wire = Append(@, <<"ok", body>>)]

(* except Exception: logger.warning(...); await asyncio.sleep(1 + attempt * 2) *)
FetchOnError(fc) ==
    [fc EXCEPT !.pc = "sleep", !.wire = Append(@, <<"err">>),
               !.slept = Append(@, 1 + fc.attempt * 2)]

(* The sleep is over: the next attempt of the loop, or the raise after it. *)
FetchOnWake(fc) ==
    IF HasNextAttempt(fc.attempt)
    THEN [fc EXCEPT !.pc = "get", !.attempt = @ + 1]
    ELSE [fc EXCEPT !.pc = "raised", !.attempt = @ + 1,
                    !.exc = [type |-> "Exception", url |-> fc.url, tries |-> retries]]

----------------------------------------------------------------------------
(* Crawler.process_book *)

(* existing and result hold <<>> for Python's None, else <<the document>>. *)
IdleTask ==
    [pc |-> "idle", url |-> <<>>, html |-> Unbound, data |-> Unbound, existing |-> <<>>,
     kind |-> "none", changed_fields |-> Unbound, change_record |-> Unbound,
     result |-> <<>>, failed |-> "no"]

(* A comparison of the titles in the place of the content hashes. *)
Classify_title(existing, book_data) ==
    IF existing # <<>>
    THEN IF Get(existing[1], "title", None) = book_data["title"]
         THEN "unchanged" ELSE "updated"
    ELSE "new"

(* No comparison of the content hashes: a stored item is always updated. *)
Classify_nohash(existing, book_data) ==
    IF existing # <<>> THEN "updated" ELSE "new"

(* existing is there and its content_hash is the new one; existing is there;
   or it is not. *)
Classify(existing, book_data) ==
    IF existing # <<>>
    THEN IF Get(existing[1], "content_hash", None) = book_data["content_hash"]
         THEN "unchanged" ELSE "updated"
    ELSE "new"

(* The loop without its continue: every key of book_data is compared. *)
ChangedFields_all(existing, book_data) ==
    LET keys == {k \in DOMAIN book_data : Get(existing, k, None) # book_data[k]}
    IN [k \in keys |-> [old |-> Get(existing, k, None), new |-> book_data[k]]]

(* The keys of book_data, but raw_snapshot_id and content_hash, whose value in
   existing (None when it has none) is not book_data's. *)
ChangedFields(existing, book_data) ==
    LET keys == {k \in DOMAIN book_data :
                    /\ k \notin {"raw_snapshot_id", "content_hash"}
                    /\ Get(existing, k, None) # book_data[k]}
    IN [k \in keys |-> [old |-> Get(existing, k, None), new |-> book_data[k]]]

(* upsert_book awaited before insert_snapshot. *)
StageAfter_swapped(pc) ==
    CASE pc = "find" -> "upsert"
      [] pc = "upsert" -> "snap"
      [] pc = "snap" -> "log"

(* The ledger operation process_book awaits after the one at pc: find_one,
   then insert_snapshot, then upsert_book, then the change-log insert. *)
StageAfter(pc) ==
    CASE pc = "find" -> "snap"
      [] pc = "snap" -> "upsert"
      [] pc = "upsert" -> "log"

(* The snapshot document of both branches. *)
snap_doc(url, html, now) == [source_url |-> Url(url), html |-> html, timestamp |-> now]

(* process_book has returned: its locals are gone, its result stays with gather. *)
TaskDone(tk, kind, result) ==
    [IdleTask EXCEPT !.pc = "done", !.url = tk.url, !.kind = kind, !.result = result]

(* process_book's except clause: the error is logged and None returned. *)
TaskFailed(tk, stage) == [TaskDone(tk, tk.kind, <<>>) EXCEPT !.failed = stage]

----------------------------------------------------------------------------
(* Crawler.run *)

(* mark_all_changes_as_old() started and not awaited. *)
AwaitsAgeOut_not == FALSE

(* A handler around self.fetch in get_all_book_links that ends the loop. *)
DiscoveryCatches_break == TRUE

(* process_book without its try/except. *)
ProcessBookCatches_not == FALSE

(* run() awaits mark_all_changes_as_old() before it goes on. *)
AwaitsAgeOut == TRUE

(* get_all_book_links has no handler around self.fetch. *)
DiscoveryCatches == FALSE

(* process_book's body is inside try/except Exception. *)
ProcessBookCatches == TRUE

(* No deduplication: the links as they were collected. *)
Uniq_none(links, seen) == links

(* The links of a page put before those of the pages read earlier. *)
ExtendLinks_front(book_links, page_url, html) ==
    [i \in 1..Len(html.links) |-> urljoin(page_url, html.links[i])] \o book_links

(* for a in soup.select("article.product_pod h3 a"): the page's item links,
   made absolute, are appended in document order. *)
ExtendLinks(book_links, page_url, html) ==
    book_links \o [i \in 1..Len(html.links) |-> urljoin(page_url, html.links[i])]

(* book_links without its repetitions, in the order of first occurrence. *)
RECURSIVE Uniq(_, _)
Uniq(links, seen) ==
    IF links = <<>> THEN <<>>
    ELSE IF links[1] \in seen THEN Uniq(Tail(links), seen)
    ELSE <<links[1]>> \o Uniq(Tail(links), seen \cup {links[1]})

(* The tasks run() made: one per link. *)
Started == {t \in Tasks : t <= Len(disc.uniq)}

(* The result of the last task alone. *)
Changes_last(n) == IF n = 0 THEN <<>> ELSE task[n].result

(* [r for r in results if r is not None], results in the order of the tasks. *)
RECURSIVE Changes(_)
Changes(n) == IF n = 0 THEN <<>> ELSE Changes(n - 1) \o task[n].result

NoDiscovery == [page_url |-> <<>>, book_links |-> <<>>, uniq |-> <<>>, fetched |-> <<>>]

(* The query parameters of a request that carries none, and no X-API-Key. *)
NoParams ==
    [path |-> "", header |-> None, category |-> None, rating |-> None, min_price |-> None,
     max_price |-> None, sort_by |-> None, page |-> 1, page_size |-> 1, book_id |-> None,
     limit |-> None]

(* No response yet. *)
NoResponse == [status |-> 0, total |-> 0, results |-> <<>>]

(* The API serves no request; API_KEY is not set. *)
NoRequest == [key |-> None, pc |-> "idle", req |-> NoParams, resp |-> NoResponse]

(* main() has not been started; seen records where run() of this process was
   when main() ended. *)
NoScript == [pc |-> "idle", seen |-> <<"idle", 0>>]

(* scheduled_crawl is not running. *)
NoJob == [pc |-> "idle", closed |-> 0, reported |-> 0, read |-> <<>>, alerts |-> <<>>]

(* The site the crawler runs against, and nothing else going on. *)
InitAround ==
    /\ web = Listing
    /\ api = NoRequest
    /\ sched = NoJob
    /\ script = NoScript

(* The state after construction, but for the configuration. *)
InitRest ==
    /\ sem = width
    /\ runPc = "idle"
    /\ runNo = 0
    /\ clock = 0
    /\ agePending = FALSE
    /\ agedRun = 0
    /\ sinceAge = [pre |-> {}, k |-> 0]
    /\ disc = NoDiscovery
    /\ InitAround
    /\ f = [c \in Callers |-> IdleFetch]
    /\ task = [t \in Tasks |-> IdleTask]
    /\ returned = <<>>
    /\ books = <<>>
    /\ snapshots = {}
    /\ change_log = {}

Init ==
    /\ width = RunWidth
    /\ retries = RETRIES
    /\ InitRest

(* get_all_book_links up to its first await. *)
BeginDiscovery ==
    /\ runPc' = "discover"
    /\ disc' = [NoDiscovery EXCEPT !.page_url = FirstPage]
    /\ f' = [c \in Callers |-> IF c = 0 THEN FetchCall(FirstPage) ELSE IdleFetch]

(* The loop is left: the links are deduplicated and run() gathers its tasks,
   each running up to its fetch. *)
BeginGather(links, fetched) ==
    LET uniq == Uniq(links, {})
    IN /\ runPc' = "gather"
       /\ disc' = [disc EXCEPT !.book_links = links, !.uniq = uniq, !.fetched = fetched]
       /\ f' = [c \in Callers |->
                  IF c \in 1..Len(uniq) THEN FetchCall(uniq[c]) ELSE IdleFetch]
       /\ task' = [t \in Tasks |->
                     IF t <= Len(uniq) THEN [IdleTask EXCEPT !.pc = "fetch", !.url = uniq[t]]
                     ELSE IdleTask]

(* run() is called. *)
RunStart ==
    /\ runPc \in {"idle", "returned", "aborted"}
    /\ runNo < MaxRuns
    /\ runNo' = runNo + 1
    /\ clock' = clock + 1
    /\ agePending' = TRUE
    /\ task' = [t \in Tasks |-> IdleTask]
    /\ returned' = <<>>
    /\ IF AwaitsAgeOut
       THEN /\ runPc' = "ageout"
            /\ disc' = NoDiscovery
            /\ f' = [c \in Callers |-> IdleFetch]
       ELSE BeginDiscovery
    /\ UNCHANGED <<config, around, sem, agedRun, sinceAge, ledger>>

(* mark_all_changes_as_old() completes. *)
AgeOut ==
    /\ agePending
    /\ agePending' = FALSE
    /\ change_log' = mark_all_changes_as_old(change_log)
    /\ agedRun' = runNo
    /\ sinceAge' = [pre |-> {e._id : e \in change_log}, k |-> 0]
    /\ IF runPc = "ageout" THEN BeginDiscovery ELSE UNCHANGED <<runPc, disc, f>>
    /\ UNCHANGED <<config, around, sem, runNo, clock, task, returned, books, snapshots>>

(* mark_all_changes_as_old() raises: the error leaves run(). *)
AgeOutError ==
    /\ agePending
    /\ agePending' = FALSE
    /\ runPc' = IF runPc = "ageout" THEN "aborted" ELSE runPc
    /\ UNCHANGED <<config, around, sem, runNo, clock, agedRun, sinceAge, disc, f, task, returned,
                   ledger>>

(* A caller of fetch gets a slot and sends its first request. *)
FetchAcquire(c) ==
    /\ f[c].pc = "wait"
    /\ SlotFree(sem)
    /\ sem' = sem - 1
    /\ f' = [f EXCEPT ![c].pc = "get"]
    /\ UNCHANGED <<config, around, runPc, runNo, clock, agePending, agedRun, sinceAge, disc, task,
                   returned, ledger>>

(* client.get or raise_for_status raises. *)
FetchError(c) ==
    /\ f[c].pc = "get"
    /\ f' = [f EXCEPT ![c] = FetchOnError(@)]
    /\ UNCHANGED <<config, around, sem, runPc, runNo, clock, agePending, agedRun, sinceAge, disc,
                   task, returned, ledger>>

(* The sleep ends and the loop has another attempt. *)
FetchRetry(c) ==
    /\ f[c].pc = "sleep"
    /\ FetchOnWake(f[c]).pc = "get"
    /\ f' = [f EXCEPT ![c] = FetchOnWake(@)]
    /\ UNCHANGED <<config, around, sem, runPc, runNo, clock, agePending, agedRun, sinceAge, disc,
                   task, returned, ledger>>

(* A listing page arrives: its links are added, and the next page is fetched
   or the loop left. *)
DiscFetchOk ==
    /\ runPc = "discover"
    /\ f[0].pc = "get"
    /\ Len(disc.fetched) < MaxFetches
    /\ \E body \in Served(f[0].url) :
         LET html == FetchOnOk(f[0], body).result
             page_url == disc.page_url
             links == ExtendLinks(disc.book_links, page_url, html)
             fetched == Append(disc.fetched, page_url)
         IN IF html.next # <<>>
            THEN /\ disc' = [disc EXCEPT !.page_url = urljoin(page_url, html.next),
                                         !.book_links = links,
                                         !.fetched = fetched]
                 /\ f' = [f EXCEPT ![0] = FetchCall(urljoin(page_url, html.next))]
                 /\ UNCHANGED <<runPc, task>>
            ELSE BeginGather(links, fetched)
    /\ sem' = Release(sem)
    /\ UNCHANGED <<config, around, runNo, clock, agePending, agedRun, sinceAge, returned, ledger>>

(* The fetch of a listing page is exhausted: the exception leaves
   get_all_book_links and run(). *)
DiscFetchRaise ==
    /\ runPc = "discover"
    /\ f[0].pc = "sleep"
    /\ FetchOnWake(f[0]).pc = "raised"
    /\ IF DiscoveryCatches
       THEN BeginGather(disc.book_links, disc.fetched)
       ELSE /\ runPc' = "aborted"
            /\ f' = [f EXCEPT ![0] = IdleFetch]
            /\ UNCHANGED <<disc, task>>
    /\ sem' = Release(sem)
    /\ UNCHANGED <<config, around, runNo, clock, agePending, agedRun, sinceAge, returned, ledger>>

----------------------------------------------------------------------------
(* Crawler.process_book, one action per await *)

(* An exception inside process_book at the given stage. *)
TaskError(t, stage) ==
    /\ task' = [task EXCEPT ![t] = TaskFailed(@, stage)]
    /\ runPc' = IF ProcessBookCatches THEN runPc ELSE "aborted"

(* The fetch of the item's page is exhausted. *)
TaskFetchRaise(t) ==
    /\ task[t].pc = "fetch"
    /\ f[t].pc = "sleep"
    /\ FetchOnWake(f[t]).pc = "raised"
    /\ f' = [f EXCEPT ![t] = IdleFetch]
    /\ sem' = Release(sem)
    /\ TaskError(t, "fetch")
    /\ UNCHANGED <<config, around, runNo, clock, agePending, agedRun, sinceAge, disc, returned,
                   ledger>>

(* The item's page arrives and is parsed; find_one is issued. *)
TaskFetchOk(t) ==
    /\ task[t].pc = "fetch"
    /\ f[t].pc = "get"
    /\ \E body \in Served(f[t].url) :
         LET html == FetchOnOk(f[t], body).result
         IN IF ParseRaises(html)
            THEN TaskError(t, "parse")
            ELSE /\ task' = [task EXCEPT ![t].pc = "find", ![t].html = html,
                                         ![t].data = parse_book(html, task[t].url)]
                 /\ UNCHANGED runPc
    /\ f' = [f EXCEPT ![t] = IdleFetch]
    /\ sem' = Release(sem)
    /\ UNCHANGED <<config, around, runNo, clock, agePending, agedRun, sinceAge, disc, returned,
                   ledger>>

(* find_one returns: the item is classified; an unchanged item is done, for
   another the diff is computed and the snapshot insert issued. *)
TaskFind(t) ==
    /\ task[t].pc = "find"
    /\ LET tk == task[t]
           existing == find_one(books, tk.data["_id"][2][1])
           kind == Classify(existing, tk.data)
       IN task' = [task EXCEPT ![t] =
                     CASE kind = "unchanged" -> TaskDone(tk, kind, <<>>)
                       [] kind = "updated" ->
                            [tk EXCEPT !.pc = StageAfter("find"), !.existing = existing, !.kind = kind,
                                       !.changed_fields = ChangedFields(existing[1], tk.data)]
                       [] OTHER ->
                            [tk EXCEPT !.pc = StageAfter("find"), !.existing = existing,
                                       !.kind = kind]]
    /\ UNCHANGED <<config, around, sem, runPc, runNo, clock, agePending, agedRun, sinceAge, disc, f,
                   returned, ledger>>

(* insert_snapshot returns: its id goes into the record and upsert_book is issued. *)
TaskSnap(t) ==
    /\ task[t].pc = "snap"
    /\ snapshots' = insert_snapshot(snapshots,
                                    snap_doc(task[t].url, task[t].html, Time(clock)),
                                    <<"snap", runNo, t>>)
    /\ task' = [task EXCEPT ![t].pc = StageAfter("snap"),
                            ![t].data = [raw_snapshot_id |-> StrOid(Oid(<<"snap", runNo, t>>))] @@ @]
    /\ UNCHANGED <<config, around, sem, runPc, runNo, clock, agePending, agedRun, sinceAge, disc, f,
                   returned, books, change_log>>

(* upsert_book returns: the change record is built and its insert issued. *)
TaskUpsert(t) ==
    /\ task[t].pc = "upsert"
    /\ books' = upsert_book(books, task[t].data)
    /\ task' = [task EXCEPT ![t].pc = StageAfter("upsert"),
                  ![t].change_record =
                      IF task[t].kind = "updated"
                      THEN change_doc(task[t].data["_id"][2][1], "updated", Time(clock))
                             @@ [field_changes |-> task[t].changed_fields]
                      ELSE change_doc(task[t].data["_id"][2][1], "new", Time(clock))]
    /\ UNCHANGED <<config, around, sem, runPc, runNo, clock, agePending, agedRun, sinceAge, disc, f,
                   returned, snapshots, change_log>>

(* The change-log insert returns: process_book returns the change record. *)
TaskLog(t) ==
    /\ task[t].pc = "log"
    /\ change_log' = insert_change(change_log, task[t].change_record, <<"chg", runNo, t>>)
    /\ sinceAge' = [sinceAge EXCEPT !.k = @ + 1]
    /\ task' = [task EXCEPT ![t] =
                  TaskDone(@, @.kind,
                           <<[_id |-> Oid(<<"chg", runNo, t>>)] @@ task[t].change_record>>)]
    /\ UNCHANGED <<config, around, sem, runPc, runNo, clock, agePending, agedRun, disc, f, returned,
                   books, snapshots>>

(* The awaited ledger operation raises instead (find_one, insert_snapshot,
   upsert_book or the change-log insert). *)
TaskDbError(t) ==
    /\ task[t].pc \in {"find", "snap", "upsert", "log"}
    /\ TaskError(t, task[t].pc)
    /\ UNCHANGED <<config, around, sem, runNo, clock, agePending, agedRun, sinceAge, disc, f,
                   returned, ledger>>

(* asyncio.gather has every result: run() returns the changes. *)
RunReturn ==
    /\ runPc = "gather"
    /\ \A t \in Started : task[t].pc = "done"
    /\ runPc' = "returned"
    /\ returned' = Changes(Len(disc.uniq))
    /\ UNCHANGED <<config, around, sem, runNo, clock, agePending, agedRun, sinceAge, disc, f, task,
                   ledger>>

Next ==
    \/ RunStart
    \/ AgeOut
    \/ AgeOutError
    \/ \E c \in Callers : FetchAcquire(c)
    \/ \E c \in Callers : FetchError(c)
    \/ \E c \in Callers : FetchRetry(c)
    \/ DiscFetchOk
    \/ DiscFetchRaise
    \/ \E t \in Tasks : TaskFetchOk(t)
    \/ \E t \in Tasks : TaskFetchRaise(t)
    \/ \E t \in Tasks : TaskFind(t)
    \/ \E t \in Tasks : TaskSnap(t)
    \/ \E t \in Tasks : TaskUpsert(t)
    \/ \E t \in Tasks : TaskLog(t)
    \/ \E t \in Tasks : TaskDbError(t)
    \/ RunReturn

Spec == Init /\ [][Next]_vars

----------------------------------------------------------------------------
(* Crawler.fetch called on its own, by concurrent callers, each once, under
   every concurrency up to MaxWidth and every retry count up to MaxRetries. *)

FetchUrls == {FirstPage, <<"catalogue", "b1", "index.html">>}

InitFetch ==
    /\ width \in 1..MaxWidth
    /\ retries \in 1..MaxRetries
    /\ InitRest

(* A caller calls fetch(url). *)
CallFetch(c) ==
    /\ f[c].pc = "idle"
    /\ \E url \in FetchUrls : f' = [f EXCEPT ![c] = FetchCall(url)]
    /\ UNCHANGED <<config, around, sem, runPc, runNo, clock, agePending, agedRun, sinceAge, disc,
                   task, returned, ledger>>

(* The response arrives: the slot is released and the text returned. *)
FetchReturn(c) ==
    /\ f[c].pc = "get"
    /\ \E body \in Served(f[c].url) : f' = [f EXCEPT ![c] = FetchOnOk(@, body)]
    /\ sem' = Release(sem)
    /\ UNCHANGED <<config, around, runPc, runNo, clock, agePending, agedRun, sinceAge, disc, task,
                   returned, ledger>>

(* The sleep after the last attempt ends: the slot is released and the
   exception raised. *)
FetchRaise(c) ==
    /\ f[c].pc = "sleep"
    /\ FetchOnWake(f[c]).pc = "raised"
    /\ f' = [f EXCEPT ![c] = FetchOnWake(@)]
    /\ sem' = Release(sem)
    /\ UNCHANGED <<config, around, runPc, runNo, clock, agePending, agedRun, sinceAge, disc, task,
                   returned, ledger>>

NextFetch ==
    \/ \E c \in Tasks : CallFetch(c)
    \/ \E c \in Tasks : FetchAcquire(c)
    \/ \E c \in Tasks : FetchError(c)
    \/ \E c \in Tasks : FetchRetry(c)
    \/ \E c \in Tasks : FetchReturn(c)
    \/ \E c \in Tasks : FetchRaise(c)

SpecFetch == InitFetch /\ [][NextFetch]_vars

----------------------------------------------------------------------------
(* Properties of Crawler.fetch *)

(* The position and the outcome of a pipeline. *)
TaskView(tk) == <<tk.pc, tk.kind, tk.failed, tk.result>>

(* Where the run, its pipelines and the calls of fetch are: every step of
   run(), of a pipeline or of a call changes it. *)
positions ==
    <<runPc, runNo, agePending, [t \in Tasks |-> TaskView(task[t])],
      [c \in Callers |-> <<f[c].pc, f[c].attempt>>]>>

(* The calls that are past the gate: they hold a slot. *)
PastGate == {c \in Callers : f[c].pc \in {"get", "sleep"}}

AllErrors(wire) == \A i \in 1..Len(wire) : wire[i] = <<"err">>

(* C1: the calls past the gate never outnumber the configured concurrency,
   every slot is either free or held by one of them, and a waiting call goes
   through the gate only in a state where fewer calls than the concurrency
   hold a slot, that is after a release when all slots were taken. *)
C1_GateBounded ==
    /\ [](/\ Cardinality(PastGate) <= width
          /\ sem = width - Cardinality(PastGate))
    /\ [][\A c \in Callers :
            (f[c].pc = "wait" /\ f'[c].pc = "get") => Cardinality(PastGate) < width]_positions

(* C1: two calls hold the two slots and a third call is suspended. *)
C1_Witness ==
    /\ width = 2
    /\ Cardinality(PastGate) = 2
    /\ \E c \in Callers : f[c].pc = "wait"
    /\ \E c \in PastGate : Len(f[c].wire) > 0

(* C7: no call makes more than RETRIES attempts; a call whose RETRIES attempts
   have all failed and whose last sleep is over has raised, and a call that has
   raised made exactly RETRIES attempts, all failed, and its exception carries
   the URL and the attempt count. *)
C7_ExhaustedAfterN ==
    \A c \in Callers :
        /\ Len(f[c].wire) <= retries
        /\ (Len(f[c].wire) = retries /\ AllErrors(f[c].wire) /\ f[c].pc # "sleep")
               => f[c].pc = "raised"
        /\ f[c].pc = "raised" =>
               /\ Len(f[c].wire) = retries
               /\ AllErrors(f[c].wire)
               /\ f[c].exc.url = f[c].url
               /\ f[c].exc.tries = retries

(* C7: with three attempts allowed a call has raised after three failures. *)
C7_Witness ==
    /\ retries = 3
    /\ \E c \in Callers : f[c].pc = "raised" /\ Len(f[c].wire) = 3

(* C8: a call whose latest attempt succeeded has returned that attempt's
   content, every attempt before it failed, and with k failures it made
   exactly k + 1 attempts, k < RETRIES; and only such a call has returned. *)
C8_RetryThenSucceed ==
    \A c \in Callers :
        LET wire == f[c].wire
            n == Len(wire)
        IN /\ (n > 0 /\ wire[n][1] = "ok") =>
                  /\ f[c].pc = "returned"
                  /\ f[c].result = wire[n][2]
                  /\ AllErrors(SubSeq(wire, 1, n - 1))
                  /\ n = f[c].attempt + 1
                  /\ n <= retries
           /\ f[c].pc = "returned" => (n > 0 /\ wire[n][1] = "ok")

(* C8: attempts 0 and 1 failed and attempt 2 succeeded, of three allowed, and
   the call returned a detail page. *)
C8_Witness ==
    /\ retries = 3
    /\ \E c \in Callers :
          /\ f[c].pc = "returned"
          /\ Len(f[c].wire) = 3
          /\ f[c].result \in DetailDocs

----------------------------------------------------------------------------
(* Properties of Crawler.run and the ledger *)

(* The run a document's ObjectId was made in. *)
RunOf(d) == d._id[2][2]

NewEntries == {e \in change_log : e.recent = "new"}

(* The documents the current run has written. *)
WrittenThisRun ==
    {s \in snapshots : RunOf(s) = runNo} \cup {e \in change_log : RunOf(e) = runNo}
        \cup {books[id] : id \in {i \in DOMAIN books : books[i]["raw_snapshot_id"][2][2] = runNo}}

(* C2: whenever a pipeline of the run exists (so before each of its ledger
   reads and writes), and whenever the ledger holds a document written by the
   run, the run's age-out has completed. *)
C2_AgeOutBeforePipelines ==
    ((\E t \in Tasks : task[t].pc # "idle") \/ WrittenThisRun # {})
        => (agedRun = runNo /\ ~agePending)

(* C2: in the second run a pipeline is about to append its change entry while
   the log holds the first run's entries. *)
C2_Witness ==
    /\ runNo = 2
    /\ \E t \in Tasks : task[t].pc = "log"
    /\ \E e \in change_log : RunOf(e) = 1

(* The run that completed most recently (returned or left by an error). *)
LastCompleted == IF runPc \in {"idle", "returned", "aborted"} THEN runNo ELSE runNo - 1

(* C3 as stated: in every state the 'new' entries are exactly the entries of
   the most recently completed run. *)
C3_Original == NewEntries = {e \in change_log : RunOf(e) = LastCompleted}

(* C3 amended: in every state the 'new' entries are exactly the entries
   appended since the last completed age-out, that is the entries of the run
   whose age-out completed last, be it in progress or over; every other entry
   is 'old'. *)
C3_NewSinceAgeOut == \A e \in change_log : (e.recent = "new") <=> (RunOf(e) = agedRun)

(* C3: the second run is in progress, has appended an entry, and the first
   run's entry is old. *)
C3_Witness ==
    /\ runNo = 2
    /\ runPc = "gather"
    /\ \E e \in change_log : RunOf(e) = 2 /\ e.recent = "new"
    /\ \E e \in change_log : RunOf(e) = 1 /\ e.recent = "old"

(* C4: after an age-out and the K appends since, exactly K entries are 'new',
   they are the entries that were not there at the age-out, and every entry
   that was there is still there and 'old'. *)
C4_AgeOutThenAppends ==
    agedRun >= 1 =>
        /\ Cardinality(NewEntries) = sinceAge.k
        /\ NewEntries = {e \in change_log : e._id \notin sinceAge.pre}
        /\ sinceAge.pre \subseteq {e._id : e \in change_log}
        /\ \A e \in change_log : e._id \in sinceAge.pre => e.recent = "old"

(* C4: an age-out over two entries was followed by two appends. *)
C4_Witness ==
    /\ Cardinality(sinceAge.pre) = 2
    /\ sinceAge.k = 2

(* C4: an age-out over a log with entries, and no append since. *)
C4_WitnessZero ==
    /\ sinceAge.pre # {}
    /\ sinceAge.k = 0
    /\ runPc = "returned"

(* What a step of task t may change in the ledger: the record of its own id,
   one more snapshot of its own URL, one more change entry of its own id. *)
OwnWritesOnly(t) ==
    LET id == BookId(task[t].url)
    IN /\ \A j \in DOMAIN books : j # id => (j \in DOMAIN books' /\ books'[j] = books[j])
       /\ \A j \in DOMAIN books' : j # id => j \in DOMAIN books
       /\ snapshots \subseteq snapshots'
       /\ \A s \in snapshots' \ snapshots : s.source_url = Url(task[t].url)
       /\ change_log \subseteq change_log'
       /\ \A e \in change_log' \ change_log : e.book_id = id
       /\ \A u \in Tasks \ {t} : TaskView(task'[u]) = TaskView(task[u])

(* C5: a failed pipeline has returned None, has left the run going, and has
   no change entry in the log nor in the list run() returns; that list holds
   the results of the tasks; and every step of a pipeline leaves the records,
   snapshots and change entries of the other items, and the other pipelines,
   as they are. *)
C5_FailureIsolated ==
    /\ [](/\ \A t \in Tasks : task[t].failed # "no" =>
                /\ task[t].pc = "done"
                /\ task[t].result = <<>>
                /\ runPc \in {"gather", "returned"}
                /\ \A e \in change_log : e._id # Oid(<<"chg", runNo, t>>)
                /\ \A i \in 1..Len(returned) : returned[i]._id # Oid(<<"chg", runNo, t>>)
          /\ runPc = "returned" =>
                /\ \A i \in 1..Len(returned) : \E t \in Started : task[t].result = <<returned[i]>>
                /\ \A t \in Started : task[t].result # <<>> =>
                       \E i \in 1..Len(returned) : task[t].result = <<returned[i]>>)
    /\ [][\A t \in Tasks :
            (runPc = "gather" /\ runPc' = "gather" /\ task'[t].pc # task[t].pc) => OwnWritesOnly(t)]_positions

(* C5: run() has returned one change although the other item's pipeline failed
   at its change-log insert. *)
C5_Witness ==
    /\ runPc = "returned"
    /\ Len(returned) = 1
    /\ \E t \in Started : task[t].failed = "log"

(* Every item link of the site. *)
AllLinks ==
    UNION {{urljoin(p, Listing[p].links[i]) : i \in 1..Len(Listing[p].links)} :
             p \in DOMAIN Listing}

(* C6: pipelines exist only with the links of every listing page collected;
   a run left by an error has started no pipeline and no fetch of an item,
   has returned nothing and has written no snapshot, record or change entry. *)
C6_DiscoveryFailureAborts ==
    /\ (runPc \in {"gather", "returned"} \/ \E t \in Tasks : task[t].pc # "idle")
           => AllLinks \subseteq {disc.book_links[i] : i \in 1..Len(disc.book_links)}
    /\ runPc = "aborted" =>
           /\ \A t \in Tasks : task[t].pc = "idle" /\ f[t].pc = "idle"
           /\ returned = <<>>
           /\ WrittenThisRun = {}

(* C6: the fetch of the second listing page was exhausted with the links of
   the first one collected, and the run was left. *)
C6_Witness ==
    /\ runPc = "aborted"
    /\ disc.page_url = <<"catalogue", "page-2.html">>
    /\ Len(disc.book_links) = 2

(* Task t leaves its find_one with an answer. *)
Classifies(t) == task[t].pc = "find" /\ task'[t].pc # "find" /\ task'[t].failed = "no"

(* A record of the item's id is stored with the fingerprint of the new record. *)
SameFingerprint(t) ==
    LET ex == find_one(books, BookId(task[t].url))
    IN ex # <<>> /\ Get(ex[1], "content_hash", None) = task[t].data["content_hash"]

(* field_changes is not empty and each of its fields differs. *)
RealChanges(cf) == DOMAIN cf # {} /\ \A k \in DOMAIN cf : cf[k].old # cf[k].new

(* C9: the item is Unchanged iff a record of its id is stored with the new
   fingerprint, New iff none is stored, else Updated with a non-empty
   field_changes of fields whose stored and new values differ; and that is
   the field_changes of every 'updated' entry of the log. *)
C9_Classification ==
    /\ [][\A t \in Tasks : Classifies(t) =>
            LET ex == find_one(books, BookId(task[t].url))
                kind == task'[t].kind
                cf == task'[t].changed_fields
            IN /\ kind \in {"unchanged", "new", "updated"}
               /\ (kind = "unchanged") <=> SameFingerprint(t)
               /\ (kind = "new") <=> (ex = <<>>)
               /\ kind = "updated" =>
                      /\ RealChanges(cf)
                      /\ \A k \in DOMAIN cf :
                            /\ cf[k].new = task[t].data[k]
                            /\ cf[k].old = Get(ex[1], k, None)]_positions
    /\ [](\A e \in change_log :
            IF e.change_type = "updated"
            THEN "field_changes" \in DOMAIN e /\ RealChanges(e.field_changes)
            ELSE e.change_type = "new" /\ "field_changes" \notin DOMAIN e)

(* C9: an update whose price changed is in the log. *)
C9_Witness ==
    \E e \in change_log :
        /\ e.change_type = "updated"
        /\ "price_including_tax" \in DOMAIN e.field_changes

(* C10: the step that finds the stored fingerprint equal to the new one
   changes no collection and ends the pipeline with a None result; a pipeline
   that has ended takes no further step; an Unchanged pipeline has ended. *)
C10_UnchangedWritesNothing ==
    /\ [][\A t \in Tasks :
            /\ (Classifies(t) /\ SameFingerprint(t)) =>
                   /\ UNCHANGED ledger
                   /\ task'[t].pc = "done"
                   /\ task'[t].result = <<>>
            /\ (task[t].pc = "done" /\ runNo' = runNo) => TaskView(task'[t]) = TaskView(task[t])]_positions
    /\ [](\A t \in Tasks : task[t].kind = "unchanged" => task[t].pc = "done" /\ task[t].result = <<>>)

(* C10: in the second run an item was found unchanged. *)
C10_Witness ==
    /\ runNo = 2
    /\ \E t \in Tasks :
          /\ task[t].kind = "unchanged"
          /\ BookId(task[t].url) \in DOMAIN books

----------------------------------------------------------------------------
(* Properties of the snapshots, the records and the entries of the ledger *)

(* Which pipeline of which run inserted a snapshot or a change entry. *)
MadeBy(d) == <<d._id[2][2], d._id[2][3]>>

(* No run is in progress. *)
BetweenRuns == runPc \in {"idle", "returned", "aborted"}

(* C11 as stated: after any sequence of runs the snapshots and the change
   entries are in one-to-one correspondence, a snapshot for each entry and no
   snapshot of a pipeline that appended no entry. *)
C11_Original ==
    BetweenRuns =>
        /\ {MadeBy(s) : s \in snapshots} = {MadeBy(e) : e \in change_log}
        /\ Cardinality(snapshots) = Cardinality(change_log)

(* C12: a pipeline that is at its upsert or past it has its snapshot in the
   collection, and every stored record names, by the text of its id, a
   snapshot that is in the collection and has the record's source_url. *)
C12_SnapshotBeforeUpsert ==
    /\ \A t \in Tasks : task[t].pc \in {"upsert", "log"} =>
           \E s \in snapshots : s._id = Oid(<<"snap", runNo, t>>)
    /\ \A id \in DOMAIN books :
           /\ "raw_snapshot_id" \in DOMAIN books[id]
           /\ \E s \in snapshots :
                 /\ StrOid(s._id) = books[id]["raw_snapshot_id"]
                 /\ s.source_url = books[id]["source_url"]

(* C12: a record was replaced in the second run and names that run's snapshot. *)
C12_Witness ==
    \E id \in DOMAIN books :
        /\ books[id]["raw_snapshot_id"][2][2] = 2
        /\ \E s \in snapshots : RunOf(s) = 1 /\ s.source_url = books[id]["source_url"]

(* The page has its title container: a .product_page with an h1 in it. *)
HasTitleContainer(html) == html.product /\ html.h1 # None

(* C17 as stated: a page without its title container leaves nothing in the
   ledger: no snapshot of such a page, no record without a title, and the
   pipeline that read such a page has failed at the parse with no result. *)
C17_Original ==
    /\ \A s \in snapshots : HasTitleContainer(s.html)
    /\ \A id \in DOMAIN books : books[id]["title"] # None
    /\ \A t \in Tasks : task[t].failed = "parse" => task[t].result = <<>>

(* C19: the changed_fields an Updated pipeline computes has a key for exactly
   the fields of the new record, content_hash and raw_snapshot_id apart, whose
   stored value (None for a field the stored record has not) is not the new
   one, each with the pair of the stored and the new value; the entry the
   pipeline appends carries that map; and no entry of the log has
   content_hash, raw_snapshot_id or a field with equal values in its map. *)
C19_FieldChanges ==
    /\ [][\A t \in Tasks :
            /\ (Classifies(t) /\ task'[t].kind = "updated") =>
                  LET ex == find_one(books, BookId(task[t].url))[1]
                      d == task[t].data
                      cf == task'[t].changed_fields
                  IN /\ DOMAIN cf = {k \in DOMAIN d \ {"content_hash", "raw_snapshot_id"} :
                                        Get(ex, k, None) # d[k]}
                     /\ \A k \in DOMAIN cf : cf[k] = [old |-> Get(ex, k, None), new |-> d[k]]
            /\ (task[t].pc = "log" /\ task'[t].pc = "done" /\ task'[t].failed = "no"
                    /\ task[t].kind = "updated") =>
                  \E e \in change_log' \ change_log :
                      /\ e._id = Oid(<<"chg", runNo, t>>)
                      /\ e.change_type = "updated"
                      /\ e.field_changes = task[t].changed_fields
                      /\ task'[t].result = <<e>>]_positions
    /\ [](\A e \in change_log : e.change_type = "updated" =>
             /\ DOMAIN e.field_changes \cap {"content_hash", "raw_snapshot_id"} = {}
             /\ \A k \in DOMAIN e.field_changes :
                   e.field_changes[k].old # e.field_changes[k].new)

(* C19: an update of the prices alone: title, description and the other
   fields that stayed are not in the map. *)
C19_Witness ==
    \E e \in change_log :
        /\ e.change_type = "updated"
        /\ DOMAIN e.field_changes =
              {"crawl_timestamp", "price_including_tax", "price_excluding_tax"}

(* A step keeps each entry of the log, as it is or with its 'new' turned 'old'
   by the age-out of a later run. *)
EntriesKept ==
    \A e \in change_log :
        \E e2 \in change_log' :
            /\ e2._id = e._id
            /\ \/ e2 = e
               \/ /\ e.recent = "new"
                  /\ e2 = [e EXCEPT !.recent = "old"]
                  /\ agedRun' = runNo
                  /\ agedRun' # agedRun
                  /\ RunOf(e) < runNo

(* An entry that comes into the log comes with 'new', one at a time. *)
EntriesComeNew ==
    /\ \A e2 \in change_log' : (\A e \in change_log : e._id # e2._id) => e2.recent = "new"
    /\ Cardinality(change_log') <= Cardinality(change_log) + 1

(* C20: every step keeps each entry of the log, as it is or with its 'new'
   turned 'old' by the age-out of a later run; an entry that comes into the
   log comes with 'new', one at a time; and no two entries have one id. *)
C20_EntryLifecycle ==
    /\ [][EntriesKept /\ EntriesComeNew]_positions
    /\ [](\A e, e2 \in change_log : e._id = e2._id => e = e2)

(* C20: after two runs the first run's entry is old next to the second run's
   new entry of the same item. *)
C20_Witness ==
    /\ runPc = "returned"
    /\ \E e, e2 \in change_log :
          /\ RunOf(e) = 1 /\ e.recent = "old"
          /\ RunOf(e2) = 2 /\ e2.recent = "new"
          /\ e.book_id = e2.book_id

----------------------------------------------------------------------------
(* upsert_book called on its own, once and again, with every record and on
   every store of a bounded set: documents of two ids that have or lack a
   title and a field of their own. *)

UpsertIds == {"b1", "b2"}

UpsertFields == {"title", "raw_snapshot_id"}

(* The documents of an id: its _id with any of the other fields. *)
UpsertDocs(id) ==
    UNION {{[k \in K \cup {"_id"} |->
               CASE k = "_id" -> S(<<id>>)
                 [] k = "title" -> title
                 [] k = "raw_snapshot_id" -> StrOid(Oid(<<"snap", 0, 0>>))] :
              title \in {S(<<"T">>), S(<<"U">>)}} : K \in SUBSET UpsertFields}

(* The states of db.books over these documents. *)
UpsertStores ==
    UNION {{bks \in [D -> UNION {UpsertDocs(id) : id \in D}] :
               \A id \in D : bks[id]["_id"] = S(<<id>>)} : D \in SUBSET UpsertIds}

(* The caller of the harness. *)
Caller == 1

InitUpsert ==
    /\ width = RunWidth
    /\ retries = RETRIES
    /\ sem = width
    /\ runPc = "idle"
    /\ runNo = 0
    /\ clock = 0
    /\ agePending = FALSE
    /\ agedRun = 0
    /\ sinceAge = [pre |-> {}, k |-> 0]
    /\ disc = NoDiscovery
    /\ InitAround
    /\ f = [c \in Callers |-> IdleFetch]
    /\ \E id \in UpsertIds : \E R \in UpsertDocs(id) :
          task = [t \in Tasks |->
                    IF t = Caller THEN [IdleTask EXCEPT !.pc = "upsert", !.data = R]
                    ELSE IdleTask]
    /\ returned = <<>>
    /\ books \in UpsertStores
    /\ snapshots = {}
    /\ change_log = {}

(* await upsert_book(book_data) *)
UpsertOnce ==
    /\ task[Caller].pc = "upsert"
    /\ books' = upsert_book(books, task[Caller].data)
    /\ task' = [task EXCEPT ![Caller].pc = "upserted"]
    /\ UNCHANGED <<config, around, sem, runPc, runNo, clock, agePending, agedRun, sinceAge, disc, f,
                   returned, snapshots, change_log>>

(* await upsert_book(book_data), a second time *)
UpsertAgain ==
    /\ task[Caller].pc = "upserted"
    /\ books' = upsert_book(books, task[Caller].data)
    /\ task' = [task EXCEPT ![Caller].pc = "upserted twice"]
    /\ UNCHANGED <<config, around, sem, runPc, runNo, clock, agePending, agedRun, sinceAge, disc, f,
                   returned, snapshots, change_log>>

NextUpsert == UpsertOnce \/ UpsertAgain

SpecUpsert == InitUpsert /\ [][NextUpsert]_vars

(* The id of the record the caller upserts. *)
UpsertedId == task[Caller].data["_id"][2][1]

(* C13 as stated: after upsert_book(R) the stored document of R's id is
   exactly R, whatever was stored before. *)
C13_Original ==
    task[Caller].pc \in {"upserted", "upserted twice"} =>
        /\ UpsertedId \in DOMAIN books
        /\ books[UpsertedId] = task[Caller].data

(* C14: the second upsert_book(R) leaves db.books as the first one left it,
   and each of the two calls leaves alone the documents of the other ids,
   adding no id but R's. *)
C14_UpsertIdempotent ==
    [][/\ task[Caller].pc = "upserted" => books' = books
       /\ task'[Caller].pc # task[Caller].pc =>
             /\ DOMAIN books' = DOMAIN books \cup {UpsertedId}
             /\ \A id \in DOMAIN books \ {UpsertedId} : books'[id] = books[id]
             /\ \A k \in DOMAIN task[Caller].data :
                   books'[UpsertedId][k] = task[Caller].data[k]]_positions

(* C14: the record was upserted twice over a document of its id that had a
   field the record has not, next to a document of the other id. *)
C14_Witness ==
    /\ task[Caller].pc = "upserted twice"
    /\ DOMAIN books = UpsertIds
    /\ DOMAIN books[UpsertedId] # DOMAIN task[Caller].data

----------------------------------------------------------------------------
(* compute_hash_for_book called on its own, as parse_book calls it, by two
   callers with a record each of a bounded set: a title and a description
   that are text, empty text, None or not there, a rating or None, and either
   of two settings of the fields that are not hashed. *)

HashedBase ==
    [category |-> S(<<"C">>),
     price_including_tax |-> Num(<<"5", ".", "0">>),
     price_excluding_tax |-> Num(<<"5", ".", "0">>),
     availability |-> S(<<"I">>),
     num_reviews |-> Num(<<"0">>),
     image_url |-> Url(<<"media", "c.jpg">>)]

(* The fields compute_hash_for_book does not read: those of a record parse_book
   has just built, and those of another item's record read back from db.books. *)
UnhashedFields ==
    {[_id |-> S(<<"b1">>), source_url |-> Url(<<"catalogue", "b1", "index.html">>),
      crawl_timestamp |-> Time(1)],
     [_id |-> S(<<"b2">>), source_url |-> Url(<<"catalogue", "b2", "index.html">>),
      crawl_timestamp |-> Time(2), content_hash |-> S(<<"h">>),
      raw_snapshot_id |-> StrOid(Oid(<<"snap", 1, 2>>))]}

HashRecords ==
    {[k \in DOMAIN full \ A |-> full[k]] :
        full \in {HashedBase @@ [title |-> tv, description |-> dv, rating |-> rv] @@ un :
                     tv \in {None, S(<<>>), S(<<"T">>)},
                     dv \in {None, S(<<>>)},
                     rv \in {None, Num(<<"3">>)},
                     un \in UnhashedFields},
        A \in SUBSET {"title", "description"}}

HashCallers == {1, 2}

InitHash ==
    /\ width = RunWidth
    /\ retries = RETRIES
    /\ sem = width
    /\ runPc = "idle"
    /\ runNo = 0
    /\ clock = 0
    /\ agePending = FALSE
    /\ agedRun = 0
    /\ sinceAge = [pre |-> {}, k |-> 0]
    /\ disc = NoDiscovery
    /\ InitAround
    /\ f = [c \in Callers |-> IdleFetch]
    /\ \E d1 \in HashRecords : \E d2 \in HashRecords :
          task = [t \in Tasks |->
                    IF t \in HashCallers
                    THEN [IdleTask EXCEPT !.pc = "hash", !.data = IF t = 1 THEN d1 ELSE d2]
                    ELSE IdleTask]
    /\ returned = <<>>
    /\ books = <<>>
    /\ snapshots = {}
    /\ change_log = {}

(* data["content_hash"] = compute_hash_for_book(data) *)
HashCall(t) ==
    /\ task[t].pc = "hash"
    /\ task' = [task EXCEPT ![t].pc = "hashed",
                            ![t].data = [content_hash |-> compute_hash_for_book(@)] @@ @]
    /\ UNCHANGED <<config, around, sem, runPc, runNo, clock, agePending, agedRun, sinceAge, disc, f,
                   returned, ledger>>

NextHash == \E t \in HashCallers : HashCall(t)

SpecHash == InitHash /\ [][NextHash]_vars

(* The nine tracked fields. *)
NineFields ==
    {"title", "description", "category", "price_including_tax", "price_excluding_tax",
     "availability", "num_reviews", "image_url", "rating"}

(* Two records agree on the nine fields: each is in both with one value, or in
   neither. *)
AgreeOnNine(a, b) ==
    \A k \in NineFields :
        /\ (k \in DOMAIN a) <=> (k \in DOMAIN b)
        /\ k \in DOMAIN a => a[k] = b[k]

BothHashed == \A t \in HashCallers : task[t].pc = "hashed"

(* C15: two records that agree on the nine tracked fields get one
   fingerprint, whatever their other fields are, and the fingerprint of a
   record does not change with the content_hash stored in it. *)
C15_HashOfNineFields ==
    /\ (BothHashed /\ AgreeOnNine(task[1].data, task[2].data))
           => task[1].data["content_hash"] = task[2].data["content_hash"]
    /\ \A t \in HashCallers : task[t].pc = "hashed" =>
           compute_hash_for_book(task[t].data) = task[t].data["content_hash"]

(* C15: two records of different items, one with a snapshot id and an earlier
   content_hash, agree on the nine fields and were fingerprinted. *)
C15_Witness ==
    /\ BothHashed
    /\ AgreeOnNine(task[1].data, task[2].data)
    /\ task[1].data["_id"] # task[2].data["_id"]
    /\ task[1].data["source_url"] # task[2].data["source_url"]
    /\ "raw_snapshot_id" \in DOMAIN task[2].data
    /\ "raw_snapshot_id" \notin DOMAIN task[1].data

(* The value of a tracked field with the empty string for a missing one: a
   key that is not there, or None. *)
EmptyIfMissing(d, k) == IF k \notin DOMAIN d \/ d[k] = None THEN S(<<>>) ELSE d[k]

(* C16 as stated: two records whose tracked fields are the same once every
   missing one, not there or None, is taken for the empty string have one
   fingerprint. *)
C16_Original ==
    (BothHashed /\ \A k \in NineFields :
                     EmptyIfMissing(task[1].data, k) = EmptyIfMissing(task[2].data, k))
        => task[1].data["content_hash"] = task[2].data["content_hash"]

----------------------------------------------------------------------------
(* parse_book called on its own with every page of a bounded set: the title
   container there, without its h1 or not there, and each optional part there
   or not. *)

AllRows ==
    << <<"Price (excl. tax)", <<"L", "5", "1", ".", "7", "7">> >>,
       <<"Price (incl. tax)", <<"L", "5", "3", ".", "0", "0">> >>,
       <<"Availability", <<"I">> >>,
       <<"Number of reviews", <<"0", "7">> >> >>

RowNames == {AllRows[i][1] : i \in 1..Len(AllRows)}

(* The rows of the table whose header is in names, in document order. *)
Rows(names) ==
    LET Kept(row) == row[1] \in names
    IN SelectSeq(AllRows, Kept)

ParsePages ==
    {[product |-> container[1],
      h1 |-> container[2],
      desc |-> desc,
      crumbs |-> crumbs,
      table |-> Rows(names),
      img |-> img,
      rating |-> rating] :
        container \in {<<TRUE, S(<<"T">>)>>, <<TRUE, None>>, <<FALSE, None>>},
        desc \in {None, S(<<"D">>)},
        crumbs \in {<< <<"H">>, <<"B">> >>, << <<"H">>, <<"B">>, <<"C">> >>},
        names \in SUBSET RowNames,
        img \in {None, S(<<"..", "..", "media", "c.jpg">>)},
        rating \in {None, S(<<"star-rating">>), S(<<"star-rating", "Three">>)}}

InitParse ==
    /\ width = RunWidth
    /\ retries = RETRIES
    /\ sem = width
    /\ runPc = "idle"
    /\ runNo = 0
    /\ clock = 0
    /\ agePending = FALSE
    /\ agedRun = 0
    /\ sinceAge = [pre |-> {}, k |-> 0]
    /\ disc = NoDiscovery
    /\ InitAround
    /\ f = [c \in Callers |-> IdleFetch]
    /\ \E page \in ParsePages :
          task = [t \in Tasks |->
                    IF t = Caller
                    THEN [IdleTask EXCEPT !.pc = "parse", !.html = page,
                                          !.url = <<"catalogue", "b1", "index.html">>]
                    ELSE IdleTask]
    /\ returned = <<>>
    /\ books = <<>>
    /\ snapshots = {}
    /\ change_log = {}

(* book_data, snapshot_html = self.parse_book(html, url) *)
ParseCall ==
    /\ task[Caller].pc = "parse"
    /\ LET tk == task[Caller]
       IN task' = [task EXCEPT ![Caller] =
                     IF ParseRaises(tk.html)
                     THEN [tk EXCEPT !.pc = "raised", !.failed = "parse"]
                     ELSE [tk EXCEPT !.pc = "parsed", !.data = parse_book(tk.html, tk.url)]]
    /\ UNCHANGED <<config, around, sem, runPc, runNo, clock, agePending, agedRun, sinceAge, disc, f,
                   returned, ledger>>

NextParse == ParseCall

SpecParse == InitParse /\ [][NextParse]_vars

(* The table of the page has a row of the header. *)
HasRow(html, th) == \E i \in 1..Len(html.table) : html.table[i][1] = th

(* Each part of the page that is not there gives None in the record (0 for
   the review count), each part that is there a value. *)
AbsentWhereMissing(html, data) ==
    /\ (data["title"] = None) <=> ~HasTitleContainer(html)
    /\ (data["description"] = None) <=> (html.desc = None)
    /\ (data["category"] = None) <=> (Len(html.crumbs) < 3)
    /\ (data["price_including_tax"] = None) <=> ~HasRow(html, "Price (incl. tax)")
    /\ (data["price_excluding_tax"] = None) <=> ~HasRow(html, "Price (excl. tax)")
    /\ (data["availability"] = None) <=> ~HasRow(html, "Availability")
    /\ data["num_reviews"] =
          (IF HasRow(html, "Number of reviews") THEN Num(<<"7">>) ELSE Num(<<"0">>))
    /\ (data["image_url"] = None) <=> (html.img = None)
    /\ (data["rating"] = None) <=> (html.rating # S(<<"star-rating", "Three">>))

(* C18: parse_book returns a record for every page that has its title
   container, whichever optional parts are not there, with None for each of
   them and 0 for the review count; it raises only for a page without its
   title container. *)
C18_OptionalPartsNeverFail ==
    /\ task[Caller].pc \in {"parse", "parsed", "raised"}
    /\ HasTitleContainer(task[Caller].html) => task[Caller].pc # "raised"
    /\ task[Caller].pc = "parsed" => AbsentWhereMissing(task[Caller].html, task[Caller].data)

(* C18: a page with its title and none of its optional parts was parsed. *)
C18_Witness ==
    /\ task[Caller].pc = "parsed"
    /\ HasTitleContainer(task[Caller].html)
    /\ task[Caller].html.table = <<>>
    /\ task[Caller].html.desc = None
    /\ task[Caller].html.img = None
    /\ task[Caller].html.rating = None
    /\ Len(task[Caller].html.crumbs) < 3
    /\ task[Caller].data["num_reviews"] = Num(<<"0">>)

-----------------------------------------------------------------------------
(* What run() returns *)

(* The pipelines of the run that classified their item New or Updated and
   completed. *)
Succeeded == {t \in Started : task[t].kind \in {"new", "updated"} /\ task[t].failed = "no"}

(* C21: when run() has returned, its list holds exactly one entry per item
   classified New or Updated whose pipeline succeeded, the entry that pipeline
   appended, and no entry for an Unchanged or failed item; and the 'new'
   entries of the change log are exactly the entries of the list. *)
C21_ReturnedIsNewEntries ==
    runPc = "returned"
        => /\ Len(returned) = Cardinality(Succeeded)
           /\ \A t \in Succeeded :
                \E i \in 1..Len(returned) :
                    /\ MadeBy(returned[i]) = <<runNo, t>>
                    /\ returned[i].change_type = task[t].kind
                    /\ returned[i].book_id = BookId(task[t].url)
           /\ NewEntries = {returned[i] : i \in 1..Len(returned)}

(* A second run has returned two entries while the log keeps an aged entry. *)
C21_Witness ==
    /\ runPc = "returned"
    /\ runNo = 2
    /\ Len(returned) = 2
    /\ \E e \in change_log : e.recent = "old"


-----------------------------------------------------------------------------
(* get_all_book_links over the sites of up to three listing pages *)

Pages ==
    {<<"catalogue", "page-1.html">>, <<"catalogue", "page-2.html">>,
     <<"catalogue", "page-3.html">>}

(* The item links a listing page may hold, in document order. *)
ItemLinks ==
    {<<>>,
     << <<"b1", "index.html">>, <<"b2", "index.html">> >>,
     << <<"b3", "index.html">> >>,
     << <<"b2", "index.html">>, <<"b2", "index.html">>, <<"b1", "index.html">> >>}

(* The li.next a of a listing page: none, or a link to any of the pages. *)
NextLinks == {<<>>, <<"page-1.html">>, <<"page-2.html">>, <<"page-3.html">>}

Sites == [Pages -> [links : ItemLinks, next : NextLinks]]

InitLinks ==
    /\ width = RunWidth
    /\ retries = RETRIES
    /\ sem = width
    /\ runPc = "idle"
    /\ runNo = 0
    /\ clock = 0
    /\ agePending = FALSE
    /\ agedRun = 0
    /\ sinceAge = [pre |-> {}, k |-> 0]
    /\ disc = NoDiscovery
    /\ web \in Sites
    /\ api = NoRequest
    /\ sched = NoJob
    /\ script = NoScript
    /\ f = [c \in Callers |-> IdleFetch]
    /\ task = [t \in Tasks |-> IdleTask]
    /\ returned = <<>>
    /\ books = <<>>
    /\ snapshots = {}
    /\ change_log = {}

(* run() up to the return of get_all_book_links, every request succeeding. *)
NextLinksStep ==
    \/ RunStart
    \/ AgeOut
    \/ FetchAcquire(0)
    \/ DiscFetchOk

SpecLinks == InitLinks /\ [][NextLinksStep]_vars

(* get_all_book_links has returned. *)
LinksReturned == runPc = "gather"

Elems(seq) == {seq[i] : i \in 1..Len(seq)}

(* The position of the first occurrence of x in seq. *)
FirstAt(seq, x) == CHOOSE i \in 1..Len(seq) : seq[i] = x /\ \A k \in 1..(i - 1) : seq[k] # x

(* The absolute item links of a listing page. *)
LinkedFrom(p) == {urljoin(p, web[p].links[i]) : i \in 1..Len(web[p].links)}

(* C22: the list get_all_book_links returns holds no URL twice, holds every
   URL linked from a visited page and nothing else, and orders the URLs by
   their first occurrence among the links collected. *)
C22_UniqueInFirstOrder ==
    LinksReturned
        => /\ \A i, j \in 1..Len(disc.uniq) : disc.uniq[i] = disc.uniq[j] => i = j
           /\ Elems(disc.uniq) = UNION {LinkedFrom(p) : p \in Elems(disc.fetched)}
           /\ Elems(disc.uniq) = Elems(disc.book_links)
           /\ \A i, j \in 1..Len(disc.uniq) :
                i < j => FirstAt(disc.book_links, disc.uniq[i]) < FirstAt(disc.book_links, disc.uniq[j])

(* Three items were found, one of them linked more than once. *)
C22_Witness ==
    /\ LinksReturned
    /\ Len(disc.uniq) = 3
    /\ Len(disc.book_links) > 3

(* The pages reached from p by next links, at most n of them. *)
RECURSIVE ChainFrom(_, _)
ChainFrom(p, n) ==
    IF n = 0 THEN <<>>
    ELSE <<p>> \o (IF web[p].next = <<>> THEN <<>>
                   ELSE ChainFrom(urljoin(p, web[p].next), n - 1))

(* The absolute item links of the pages of a chain, page after page. *)
RECURSIVE LinksAlong(_)
LinksAlong(chain) ==
    IF chain = <<>> THEN <<>>
    ELSE [i \in 1..Len(web[chain[1]].links) |-> urljoin(chain[1], web[chain[1]].links[i])]
            \o LinksAlong(Tail(chain))

(* The site of tests/test_crawler.py: two items and a next link on the first
   page, one item and no next link on the second. *)
TwoPageFixture ==
    /\ web[<<"catalogue", "page-1.html">>] =
          [links |-> << <<"b1", "index.html">>, <<"b2", "index.html">> >>,
           next |-> <<"page-2.html">>]
    /\ web[<<"catalogue", "page-2.html">>] =
          [links |-> << <<"b3", "index.html">> >>, next |-> <<>>]

(* C23: when get_all_book_links returns it has fetched the pages of the chain
   of next links from the first listing page, each once and in chain order,
   and has collected their item links page after page in document order; on
   the two-page fixture it returns the three item URLs in that order. *)
C23_ChainInOrder ==
    LinksReturned
        => /\ disc.fetched = ChainFrom(FirstPage, MaxFetches)
           /\ \A i, j \in 1..Len(disc.fetched) : disc.fetched[i] = disc.fetched[j] => i = j
           /\ web[disc.fetched[Len(disc.fetched)]].next = <<>>
           /\ disc.book_links = LinksAlong(disc.fetched)
           /\ TwoPageFixture
                => disc.uniq = << <<"catalogue", "b1", "index.html">>,
                                  <<"catalogue", "b2", "index.html">>,
                                  <<"catalogue", "b3", "index.html">> >>

(* The two-page fixture has been read to its end. *)
C23_Witness ==
    /\ LinksReturned
    /\ TwoPageFixture
    /\ disc.fetched = << <<"catalogue", "page-1.html">>, <<"catalogue", "page-2.html">> >>
    /\ Len(disc.uniq) = 3

(* C30 as stated: whatever the next links of the listing pages, a link back
   to a visited page included, get_all_book_links fetches no listing page more
   than once (and so comes to an end). *)
C30_Original ==
    \A i, j \in 1..Len(disc.fetched) : disc.fetched[i] = disc.fetched[j] => i = j


-----------------------------------------------------------------------------
(* api/auth.py and api/main.py *)

(* Equality of two values of any type. *)
Eq(a, b) == a[1] = b[1] /\ a[2] = b[2]

(* Python's truth value of a parameter: None, "" and 0 are false. *)
Truthy(v) == ~(v[1] = "none") /\ ~(v[1] = "s" /\ v[2] = <<>>) /\ ~(v[1] = "i" /\ v[2] = <<0>>)

(* A dependency that lets every request with a key through. *)
get_api_key_any(header, key) == IF ~Truthy(header) THEN 401 ELSE 200

(* get_api_key: the status it raises, or 200 when it returns the key. *)
get_api_key(header, key) ==
    IF ~Truthy(header) THEN 401
    ELSE IF ~Eq(header, key) THEN 403
    ELSE 200

(* The q of list_books: a set of conditions <<field, operator, value>>. *)
BuildQuery(req) ==
    {<<"category", "$eq", req.category>> : x \in (IF Truthy(req.category) THEN {1} ELSE {})}
    \cup {<<"rating", "$eq", req.rating>> : x \in (IF Truthy(req.rating) THEN {1} ELSE {})}
    \cup {<<"price_including_tax", "$gte", req.min_price>> :
             x \in (IF req.min_price[1] # "none" THEN {1} ELSE {})}
    \cup {<<"price_including_tax", "$lte", req.max_price>> :
             x \in (IF req.max_price[1] # "none" THEN {1} ELSE {})}

(* One condition of a MongoDB filter on a document: a range operator matches
   numbers only. *)
Holds(doc, c) ==
    LET v == Get(doc, c[1], None)
    IN CASE c[2] = "$eq" -> Eq(v, c[3])
         [] c[2] = "$gte" -> v[1] = "i" /\ v[2][1] >= c[3][2][1]
         [] c[2] = "$lte" -> v[1] = "i" /\ v[2][1] <= c[3][2][1]

Matches(doc, q) == \A c \in q : Holds(doc, c)

(* collection.find(q) over db.books *)
find(bks, q) == {bks[id] : id \in {i \in DOMAIN bks : Matches(bks[i], q)}}

count_documents(bks, q) == Cardinality(find(bks, q))

(* The order of two values in a MongoDB sort: null sorts below every number
   and every date. *)
Below(v, w) ==
    \/ v[1] = "none" /\ w[1] # "none"
    \/ v[1] # "none" /\ w[1] # "none" /\ v[2][1] < w[2][1]

(* cursor.sort([(field, direction)]): the sequences of the documents that the
   sort may produce; documents of equal key come in any order, and without a
   sort the order is the collection's. *)
Orderings(docs, sort) ==
    {p \in [1..Cardinality(docs) -> docs] :
        /\ \A d \in docs : \E i \in 1..Cardinality(docs) : p[i] = d
        /\ sort # <<>>
             => \A i, j \in 1..Cardinality(docs) :
                    i < j => IF sort[2] = 1
                             THEN ~Below(Get(p[j], sort[1], None), Get(p[i], sort[1], None))
                             ELSE ~Below(Get(p[i], sort[1], None), Get(p[j], sort[1], None))}

(* The sort list_books asks for. *)
SortOf(sort_by) ==
    IF sort_by = S(<<"rating">>) THEN <<"rating", -1>>
    ELSE IF sort_by = S(<<"price">>) THEN <<"price_including_tax", 1>>
    ELSE IF sort_by = S(<<"reviews">>) THEN <<"num_reviews", -1>>
    ELSE <<>>

(* A skip that counts the pages from zero. *)
Skip_page(page, page_size) == page * page_size

(* skip = (page - 1) * page_size *)
Skip(page, page_size) == (page - 1) * page_size

Least(a, b) == IF a < b THEN a ELSE b

(* cursor.skip(skip).limit(n).to_list(length=n), n positive *)
Window(p, skip, n) == SubSeq(p, skip + 1, Least(skip + n, Len(p)))

PublicFields ==
    {"_id", "title", "description", "category", "price_including_tax",
     "price_excluding_tax", "availability", "num_reviews", "image_url", "rating",
     "source_url", "crawl_timestamp"}

book_doc_to_resp(doc) == [k \in PublicFields |-> Get(doc, k, None)]

(* serialize_change: the _id becomes its text; book_id is text already. *)
serialize_change(doc) == [doc EXCEPT !["_id"] = StrOid(doc["_id"])]

(* A filter that lets the aged entries through. *)
NewOnly_all(log) == log

(* db.change_log.find({"recent": "new"}) *)
NewOnly(log) == {e \in log : e.recent = "new"}

(* A request that marks what it served as old. *)
AfterChanges_seen(log, docs) ==
    {IF \E i \in 1..Len(docs) : docs[i] = e THEN [e EXCEPT !.recent = "old"] ELSE e : e \in log}

(* db.change_log after get_changes: the handler issues no write. *)
AfterChanges(log, docs) == log

(* limit: int = 100 *)
DefaultLimit == 100

(* The limit get_changes runs with. *)
LimitOf(req) == IF req.limit[1] = "none" THEN DefaultLimit ELSE req.limit[2][1]

(* cursor.limit(n): zero means no limit. *)
CursorLimit(p, n) == IF n = 0 THEN p ELSE SubSeq(p, 1, Least(n, Len(p)))

(* to_list(length=n), n not negative: at most n documents. *)
to_list(p, n) == SubSeq(p, 1, Least(n, Len(p)))


-----------------------------------------------------------------------------
(* The API serving requests from a ledger *)

(* A stored item as the API reads it; numbers are whole. *)
ApiBook(id, category, rating, price, reviews) ==
    [_id |-> S(<<id>>), title |-> S(<<id>>), category |-> S(<<category>>), rating |-> rating,
     price_including_tax |-> I(price), num_reviews |-> I(reviews),
     content_hash |-> S(<<"h">>)]

(* Three items: two of a category, two of equal review count, one without a
   rating, and prices on both ends of the range that is asked for. *)
Shelf ==
    {ApiBook("a", "F", I(3), 10, 2), ApiBook("b", "N", I(1), 20, 0),
     ApiBook("c", "F", None, 15, 2)}

(* db.books over any of the items. *)
ApiStores == {[id \in {d["_id"][2][1] : d \in D} |-> CHOOSE d \in D : d["_id"][2][1] = id] :
                 D \in SUBSET Shelf}

(* A change entry made at time t, aged or not. *)
ApiEntry(n, id, change_type, recent, t) ==
    [change_doc(id, change_type, Time(t)) EXCEPT !.recent = recent]
        @@ [_id |-> Oid(<<"chg", t, n>>)]

(* db.change_log: empty, or an aged entry and new ones, two of them of one
   time. *)
ApiLogs ==
    {{},
     {ApiEntry(1, "a", "new", "old", 1), ApiEntry(1, "a", "updated", "new", 2),
      ApiEntry(1, "b", "new", "new", 3)},
     {ApiEntry(1, "a", "new", "old", 1), ApiEntry(1, "a", "updated", "new", 2),
      ApiEntry(1, "b", "new", "new", 3), ApiEntry(2, "c", "new", "new", 3)}}

(* The key the API is configured with. *)
API_KEY == S(<<"k">>)

(* The X-API-Key header of a request: absent, empty, the key, another key. *)
Headers == {None, S(<<>>), S(<<"k">>), S(<<"x">>)}

(* GET /books with its query parameters, all of them valid. *)
BooksRequests ==
    {[NoParams EXCEPT !.path = "books", !.header = h, !.category = c, !.rating = r,
                      !.min_price = lo, !.max_price = hi, !.sort_by = o, !.page = pg,
                      !.page_size = sz] :
        h \in Headers, c \in {None, S(<<"F">>)}, r \in {None, I(0), I(3)},
        lo \in {None, I(10)}, hi \in {None, I(15)},
        o \in {None, S(<<"rating">>), S(<<"price">>), S(<<"reviews">>)},
        pg \in 1..MaxPage, sz \in 1..MaxPageSize}

(* GET /books/{book_id} *)
BookRequests ==
    {[NoParams EXCEPT !.path = "book", !.header = h, !.book_id = id] :
        h \in Headers, id \in {S(<<"a">>), S(<<"z">>)}}

(* GET /changes, with or without a limit. *)
ChangesRequests ==
    {[NoParams EXCEPT !.path = "changes", !.header = h, !.limit = l] :
        h \in Headers, l \in {None} \cup {I(n) : n \in (-1)..MaxLimit}}

Requests == BooksRequests \cup BookRequests \cup ChangesRequests

(* The crawler's own state. *)
crawling ==
    <<config, sem, runPc, runNo, clock, agePending, agedRun, sinceAge, disc, f, task, returned>>

InitApi ==
    /\ width = RunWidth
    /\ retries = RETRIES
    /\ sem = width
    /\ runPc = "idle"
    /\ runNo = 0
    /\ clock = 0
    /\ agePending = FALSE
    /\ agedRun = 0
    /\ sinceAge = [pre |-> {}, k |-> 0]
    /\ disc = NoDiscovery
    /\ web = Listing
    /\ api = [NoRequest EXCEPT !.key = API_KEY]
    /\ sched = NoJob
    /\ script = NoScript
    /\ f = [c \in Callers |-> IdleFetch]
    /\ task = [t \in Tasks |-> IdleTask]
    /\ returned = <<>>
    /\ books \in ApiStores
    /\ snapshots = {}
    /\ change_log \in ApiLogs

(* A request arrives. *)
ApiRequest ==
    /\ api.pc = "idle"
    /\ \E req \in Requests : api' = [api EXCEPT !.pc = "auth", !.req = req]
    /\ UNCHANGED <<crawling, web, script, sched, ledger>>

(* The response of an error: a status and no data. *)
Refuse(status) == [api EXCEPT !.pc = "done", !.resp = [NoResponse EXCEPT !.status = status]]

(* The dependency get_api_key runs, then the rate limiter around the handler,
   then the handler up to its first await. *)
ApiAuth ==
    /\ api.pc = "auth"
    /\ LET status == get_api_key(api.req.header, api.key)
       IN IF status # 200
          THEN api' = Refuse(status)
          ELSE \E limited \in BOOLEAN :
                  api' = IF limited THEN Refuse(429)
                         ELSE [api EXCEPT !.pc = CASE api.req.path = "books" -> "count"
                                                   [] api.req.path = "book" -> "find_one"
                                                   [] OTHER -> "changes"]
    /\ UNCHANGED <<crawling, web, script, sched, ledger>>

(* list_books: total = await db.books.count_documents(q) *)
ApiListCount ==
    /\ api.pc = "count"
    /\ api' = [api EXCEPT !.pc = "to_list",
                          !.resp.total = count_documents(books, BuildQuery(api.req))]
    /\ UNCHANGED <<crawling, web, script, sched, ledger>>

(* list_books: the page of the cursor is read and the response made. *)
ApiListFetch ==
    /\ api.pc = "to_list"
    /\ \E p \in Orderings(find(books, BuildQuery(api.req)), SortOf(api.req.sort_by)) :
         LET docs == Window(p, Skip(api.req.page, api.req.page_size), api.req.page_size)
         IN api' = [api EXCEPT !.pc = "done",
                               !.resp.status = 200,
                               !.resp.results = [i \in 1..Len(docs) |-> book_doc_to_resp(docs[i])]]
    /\ UNCHANGED <<crawling, web, script, sched, ledger>>

(* get_book: find_one, and 404 without a document. *)
ApiGetBook ==
    /\ api.pc = "find_one"
    /\ LET doc == find_one(books, api.req.book_id[2][1])
       IN api' = IF doc = <<>> THEN Refuse(404)
                 ELSE [api EXCEPT !.pc = "done",
                                  !.resp.status = 200,
                                  !.resp.results = <<book_doc_to_resp(doc[1])>>]
    /\ UNCHANGED <<crawling, web, script, sched, ledger>>

(* get_changes: the new entries, newest first, cut at the limit; to_list
   raises ValueError on a negative length, which ends the request with 500. *)
ApiGetChanges ==
    /\ api.pc = "changes"
    /\ IF LimitOf(api.req) < 0
       THEN /\ api' = Refuse(500)
            /\ UNCHANGED change_log
       ELSE \E p \in Orderings(NewOnly(change_log), <<"timestamp", -1>>) :
               LET docs == to_list(CursorLimit(p, LimitOf(api.req)), LimitOf(api.req))
               IN /\ api' = [api EXCEPT !.pc = "done",
                                        !.resp.status = 200,
                                        !.resp.results =
                                            [i \in 1..Len(docs) |-> serialize_change(docs[i])]]
                  /\ change_log' = AfterChanges(change_log, docs)
    /\ UNCHANGED <<crawling, web, script, sched, books, snapshots>>

(* The response has been sent. *)
ApiDone ==
    /\ api.pc = "done"
    /\ api' = [NoRequest EXCEPT !.key = api.key]
    /\ UNCHANGED <<crawling, web, script, sched, ledger>>

NextApi ==
    \/ ApiRequest
    \/ ApiAuth
    \/ ApiListCount
    \/ ApiListFetch
    \/ ApiGetBook
    \/ ApiGetChanges
    \/ ApiDone

SpecApi == InitApi /\ [][NextApi]_vars


-----------------------------------------------------------------------------
(* Properties of the API *)

(* The request in progress has been answered with data. *)
Answered(path) == api.pc = "done" /\ api.req.path = path /\ api.resp.status = 200

(* The request in progress has been refused with the status, without data. *)
Refused(status) == api.pc = "done" /\ api.resp = [NoResponse EXCEPT !.status = status]

(* C24: a GET /changes answered under a limit L (100 when none is given)
   returns entries of the change log that are 'new' and none that is 'old',
   each once, at most L of them and all of them when no more than L are new,
   the newest first; none of those left out is newer than one returned. *)
C24_NewestNewEntries ==
    Answered("changes")
        => LET R == api.resp.results
               L == IF api.req.limit = None THEN 100 ELSE api.req.limit[2][1]
               New == {e \in change_log : e.recent = "new"}
               Of(r) == {e \in New : /\ r["_id"] = <<"oidstr", e["_id"][2]>>
                                     /\ \A k \in DOMAIN e \ {"_id"} : r[k] = e[k]}
           IN /\ \A i \in 1..Len(R) : Of(R[i]) # {} /\ R[i].recent = "new"
              /\ \A i, j \in 1..Len(R) : R[i] = R[j] => i = j
              /\ Len(R) = IF Cardinality(New) < L THEN Cardinality(New) ELSE L
              /\ \A i, j \in 1..Len(R) : i < j => R[i].timestamp[2][1] >= R[j].timestamp[2][1]
              /\ \A e \in New : \A i \in 1..Len(R) :
                    e.timestamp[2][1] > R[i].timestamp[2][1] => \E j \in 1..Len(R) : e \in Of(R[j])

(* Two of three new entries were served under a limit of two, an aged entry
   being in the log. *)
C24_Witness ==
    /\ Answered("changes")
    /\ api.req.limit = I(2)
    /\ Len(api.resp.results) = 2
    /\ Cardinality({e \in change_log : e.recent = "new"}) = 3
    /\ \E e \in change_log : e.recent = "old"

(* C25: no step of an API request changes the stored items, the snapshots or
   the change log. *)
C25_ApiReadsOnly ==
    [][api.pc' # api.pc => UNCHANGED <<books, snapshots, change_log>>]_<<api.pc, ledger>>

(* All new entries were served without a limit, from a ledger with items. *)
C25_Witness ==
    /\ Answered("changes")
    /\ api.req.limit = None
    /\ Len(api.resp.results) = 3
    /\ DOMAIN books # {}

(* The dependency of the request in progress has run. *)
PastAuth == api.pc \notin {"idle", "auth"}

(* The request in progress is in its handler or has an answer of it. *)
InHandler ==
    \/ api.pc \in {"count", "to_list", "find_one", "changes"}
    \/ api.pc = "done" /\ api.resp.status \in {200, 404, 500}

(* C26 as stated: a request without an X-API-Key header is refused with 401,
   a request whose key differs from the configured key with 403, and only a
   request with the configured key reaches a handler. *)
C26_Original ==
    PastAuth
        => /\ api.req.header = None => Refused(401)
           /\ (api.req.header # None /\ api.req.header # api.key) => Refused(403)
           /\ InHandler => api.req.header = api.key

(* C26 amended: a request without an X-API-Key header or with an empty one is
   refused with 401 and without data, a request with a non-empty key that
   differs from the configured key is refused with 403 and without data, and
   only a request with the configured key reaches a handler. *)
C26_KeyGuards ==
    PastAuth
        => /\ (api.req.header = None \/ api.req.header = S(<<>>)) => Refused(401)
           /\ (api.req.header \notin {None, S(<<>>), api.key}) => Refused(403)
           /\ InHandler => api.req.header = api.key

(* A request with another key was refused with 403. *)
C26_Witness ==
    /\ Refused(403)
    /\ api.req.header = S(<<"x">>)

(* The sequences of all the documents of a set, each once. *)
Arrangements(docs) ==
    {p \in [1..Cardinality(docs) -> docs] : \A d \in docs : \E i \in 1..Cardinality(docs) : p[i] = d}

(* The values of a field never rise along the sequence. *)
Falling(p, field) == \A i, j \in 1..Len(p) : i < j => ~Below(p[i][field], p[j][field])

(* The values of a field never fall along the sequence. *)
Rising(p, field) == \A i, j \in 1..Len(p) : i < j => ~Below(p[j][field], p[i][field])

(* C27: a GET /books answered for page p and page size s returns the elements
   (p-1)*s .. p*s-1 (counted from zero) of the list of the books matching the
   query, which is ordered by rating descending for sort_by=rating, by
   price_including_tax ascending for sort_by=price, and by num_reviews
   descending for sort_by=reviews; total is the number of matching books. *)
C27_PageOfSortedList ==
    Answered("books")
        => LET M == {books[id] : id \in {i \in DOMAIN books : Matches(books[i], BuildQuery(api.req))}}
               first == (api.req.page - 1) * api.req.page_size + 1
               last == api.req.page * api.req.page_size
               n == IF Cardinality(M) < last THEN Cardinality(M) ELSE last
           IN /\ api.resp.total = Cardinality(M)
              /\ \E p \in Arrangements(M) :
                    /\ api.req.sort_by = S(<<"rating">>) => Falling(p, "rating")
                    /\ api.req.sort_by = S(<<"price">>) => Rising(p, "price_including_tax")
                    /\ api.req.sort_by = S(<<"reviews">>) => Falling(p, "num_reviews")
                    /\ Len(api.resp.results) = (IF n < first THEN 0 ELSE n - first + 1)
                    /\ \A i \in 1..Len(api.resp.results) :
                          /\ api.resp.results[i]["_id"] = p[first + i - 1]["_id"]
                          /\ \A k \in {"category", "rating", "price_including_tax", "num_reviews"} :
                                api.resp.results[i][k] = p[first + i - 1][k]

(* The second page of size one of the three items by rating holds the item of
   the lower rating. *)
C27_Witness ==
    /\ Answered("books")
    /\ api.req.sort_by = S(<<"rating">>)
    /\ api.req.page = 2
    /\ api.req.page_size = 1
    /\ api.resp.total = 3
    /\ Len(api.resp.results) = 1
    /\ api.resp.results[1]["_id"] = S(<<"b">>)

(* The books that satisfy every filter the request supplies. *)
Satisfying ==
    {books[id] : id \in
        {i \in DOMAIN books :
            /\ api.req.category # None => books[i].category = api.req.category
            /\ api.req.rating # None => Eq(books[i].rating, api.req.rating)
            /\ api.req.min_price # None
                 => books[i].price_including_tax[2][1] >= api.req.min_price[2][1]
            /\ api.req.max_price # None
                 => books[i].price_including_tax[2][1] <= api.req.max_price[2][1]}}

(* C28 as stated: a GET /books returns only books that satisfy every supplied
   filter (category, rating, price range), and total counts exactly those. *)
C28_Original ==
    Answered("books")
        => /\ \A i \in 1..Len(api.resp.results) :
                 \E d \in Satisfying : d["_id"] = api.resp.results[i]["_id"]
           /\ api.resp.total = Cardinality(Satisfying)


-----------------------------------------------------------------------------
(* scheduler/scheduler.py: one execution of scheduled_crawl *)

(* c.close() at the end of the try block, without the finally clause. *)
ClosesInFinally_not == FALSE

(* finally: await c.close() *)
ClosesInFinally == TRUE

(* Where scheduled_crawl goes when an exception leaves the try block. *)
AfterRaise == IF ClosesInFinally THEN "close" ELSE "done"

(* The run() that scheduled_crawl awaits has returned or raised. *)
RunOver == runNo >= 1 /\ runPc \in {"returned", "aborted"}

(* c = Crawler(), and run() is called on it. *)
SchedStart ==
    /\ sched.pc = "idle"
    /\ runPc = "idle"
    /\ sched' = [sched EXCEPT !.pc = "run"]
    /\ UNCHANGED <<crawling, web, script, api, ledger>>

(* run() takes a step while scheduled_crawl awaits it. *)
SchedRun ==
    /\ sched.pc = "run"
    /\ ~RunOver
    /\ Next

(* run() has returned: the number of changes is logged and
   generate_daily_report is called. *)
SchedRunReturned ==
    /\ sched.pc = "run"
    /\ runPc = "returned"
    /\ sched' = [sched EXCEPT !.pc = "report"]
    /\ UNCHANGED <<crawling, web, script, api, ledger>>

(* run() has raised. *)
SchedRunRaised ==
    /\ sched.pc = "run"
    /\ runNo >= 1
    /\ runPc = "aborted"
    /\ sched' = [sched EXCEPT !.pc = AfterRaise]
    /\ UNCHANGED <<crawling, web, script, api, ledger>>

(* The branch for no changes without its return: the code below it runs too. *)
send_alerts_through(new_changes) ==
    (IF new_changes = {} THEN <<[subject |-> "No new changes detected", count |-> 0]>> ELSE <<>>)
        \o <<[subject |-> "new change(s) detected", count |-> Cardinality(new_changes)]>>

(* scheduler/reporter.py, generate_daily_report after its read: the calls of
   send_alert it makes, each with its subject and the count in it. *)
send_alerts(new_changes) ==
    IF new_changes = {}
    THEN <<[subject |-> "No new changes detected", count |-> 0]>>
    ELSE <<[subject |-> "new change(s) detected", count |-> Cardinality(new_changes)]>>

(* generate_daily_report runs: db.change_log.find({"recent": "new"}) returns
   and the report is written and sent, or the read raises. *)
SchedReport ==
    /\ sched.pc = "report"
    /\ \/ LET new_changes == {e \in change_log : e.recent = "new"}
          IN sched' = [sched EXCEPT !.pc = "close", !.reported = @ + 1,
                                    !.read = <<new_changes>>,
                                    !.alerts = @ \o send_alerts(new_changes)]
       \/ sched' = [sched EXCEPT !.pc = AfterRaise, !.reported = @ + 1]
    /\ UNCHANGED <<crawling, web, script, api, ledger>>

(* await c.close(): client.aclose(). *)
SchedClose ==
    /\ sched.pc = "close"
    /\ sched' = [sched EXCEPT !.pc = "done", !.closed = @ + 1]
    /\ UNCHANGED <<crawling, web, script, api, ledger>>

NextSched ==
    \/ SchedStart
    \/ SchedRun
    \/ SchedRunReturned
    \/ SchedRunRaised
    \/ SchedReport
    \/ SchedClose

SpecSched == Init /\ [][NextSched]_vars

(* C29: the HTTP client is never closed twice and has been closed exactly
   once when scheduled_crawl is over, whether run() returned or raised (and
   whether the report returned or raised); generate_daily_report is invoked at
   most once, and only after run() has returned. *)
C29_CloseOnceReportAfterRun ==
    /\ sched.closed <= 1
    /\ sched.pc = "done" => sched.closed = 1
    /\ sched.closed = 1 => sched.pc = "done"
    /\ sched.reported <= 1
    /\ sched.reported = 1 => runPc = "returned"
    /\ sched.pc = "report" => runPc = "returned"

(* scheduled_crawl is over after a run() that raised: the client is closed
   and no report was made. *)
C29_Witness ==
    /\ sched.pc = "done"
    /\ runPc = "aborted"
    /\ sched.closed = 1
    /\ sched.reported = 0

(* scheduled_crawl is over after a run() that returned changes and a report. *)
C29_WitnessReturned ==
    /\ sched.pc = "done"
    /\ runPc = "returned"
    /\ Len(returned) > 0
    /\ sched.closed = 1
    /\ sched.reported = 1


-----------------------------------------------------------------------------
(* The waits and the slots of Crawler.fetch *)

(* C31 as stated: the wait after failed attempt i is 1 + 2*i, a call waits
   only when another attempt follows, and a call that has raised after
   RETRIES attempts has waited RETRIES - 1 times. *)
C31_Original ==
    \A c \in Callers :
        /\ \A i \in 1..Len(f[c].slept) : f[c].slept[i] = 1 + (i - 1) * 2
        /\ f[c].pc = "sleep" => f[c].attempt + 1 < retries
        /\ f[c].pc = "returned" => Len(f[c].slept) = Len(f[c].wire) - 1
        /\ f[c].pc = "raised" => Len(f[c].slept) = retries - 1


(* The calls of fetch that are in progress and past the gate. *)
Holding == {c \in Callers : f[c].pc \in {"get", "sleep"}}

(* A step of one call and what it does to the slots. *)
SlotSteps ==
    \A c \in Callers :
        /\ (f[c].pc = "wait" /\ f'[c].pc = "get") => sem' = sem - 1
        /\ (f[c].pc \in {"get", "sleep"} /\ f'[c].pc \in {"get", "sleep"} \ {f[c].pc})
               => sem' = sem
        /\ (f[c].pc \in {"get", "sleep"} /\ f'[c].pc \in {"returned", "raised"}) => sem' = sem + 1
        /\ (f[c].pc \in {"returned", "raised"}) => f'[c].pc = f[c].pc

(* C32: a call takes one slot at the gate, keeps it through its attempts and
   waits, and gives it back once when it returns or raises; the free slots are
   the configured ones less the calls past the gate, so with no call past the
   gate all slots are free. *)
C32_SlotsNeverLeak ==
    /\ [](sem + Cardinality(Holding) = width)
    /\ [](Holding = {} => sem = width)
    /\ [][SlotSteps]_positions

(* Every call is over, one by exhaustion and one by success after a failure,
   and both slots are free. *)
C32_Witness ==
    /\ width = 2
    /\ sem = 2
    /\ \A c \in Tasks : f[c].pc \in {"returned", "raised"}
    /\ \E c \in Tasks : f[c].pc = "raised"
    /\ \E c \in Tasks : f[c].pc = "returned" /\ Len(f[c].wire) > 1


-----------------------------------------------------------------------------
(* Progress of Crawler.run *)

(* The event loop runs a callback that is ready: some step is taken whenever
   one is possible. *)
SpecLive == Init /\ [][Next]_vars /\ WF_positions(Next)

(* run number n is in progress. *)
Running(n) == runNo = n /\ runPc \in {"ageout", "discover", "gather"}

(* C33 as stated: every run() that was called eventually returns a list. *)
C33_Original == \A n \in 1..MaxRuns : Running(n) ~> (runNo = n /\ runPc = "returned")

(* C33 amended: every run() that was called eventually ends, by returning a
   list or by raising out of the age-out or the discovery; and a run whose
   discovery has returned eventually returns a list, all of its pipelines
   being over, with more items than slots. *)
C33_RunEnds ==
    /\ \A n \in 1..MaxRuns : Running(n) ~> (runNo = n /\ runPc \in {"returned", "aborted"})
    /\ \A n \in 1..MaxRuns :
          (runNo = n /\ runPc = "gather")
              ~> (runNo = n /\ runPc = "returned" /\ \A t \in Started : task[t].pc = "done")

(* Two items went through one slot; the run returned a partial list, one
   pipeline having failed. *)
C33_Witness ==
    /\ runPc = "returned"
    /\ width = 1
    /\ Cardinality(Started) = 2
    /\ Len(returned) = 1
    /\ \E t \in Started : task[t].failed # "no"


-----------------------------------------------------------------------------
(* The ledger across failures and concurrent pipelines *)

(* C34 as stated: between runs, for every stored item there is a change-log
   entry for that item made by the run that wrote its record. *)
C34_Original ==
    BetweenRuns
        => \A id \in DOMAIN books :
              \E e \in change_log :
                  e.book_id = id /\ RunOf(e) = books[id]["raw_snapshot_id"][2][2]


(* A site whose one listing page links two addresses with the same
   second-to-last path segment, so that both derive the id b1. *)
TwinSite ==
    <<"catalogue", "page-1.html">> :>
        [links |-> << <<"b1", "index.html">>, <<"sale", "b1", "index.html">> >>,
         next |-> <<>>]

InitTwins ==
    /\ width = MaxWidth
    /\ retries = RETRIES
    /\ sem = width
    /\ runPc = "idle"
    /\ runNo = 0
    /\ clock = 0
    /\ agePending = FALSE
    /\ agedRun = 0
    /\ sinceAge = [pre |-> {}, k |-> 0]
    /\ disc = NoDiscovery
    /\ web = TwinSite
    /\ api = NoRequest
    /\ sched = NoJob
    /\ script = NoScript
    /\ f = [c \in Callers |-> IdleFetch]
    /\ task = [t \in Tasks |-> IdleTask]
    /\ returned = <<>>
    /\ books = <<>>
    /\ snapshots = {}
    /\ change_log = {}

SpecTwins == InitTwins /\ [][Next]_vars

(* C35 as stated: over the whole history an item id has at most one "new"
   entry, and no pipeline logs "new" for an id whose record another pipeline
   has stored. *)
C35_Original ==
    \A d \in change_log : \A e \in change_log :
        (d.change_type = "new" /\ e.change_type = "new" /\ d.book_id = e.book_id) => d = e


-----------------------------------------------------------------------------
(* Classification against a page that is edited between runs *)

ItemPage == <<"catalogue", "b1", "index.html">>

(* A site of one listing page that links the one item. *)
OneItemSite ==
    <<"catalogue", "page-1.html">> :> [links |-> << <<"b1", "index.html">> >>, next |-> <<>>]

(* A page whose h1 reads None. *)
NoneTitledDoc == [DocA EXCEPT !.h1 = S(<<"N", "o", "n", "e">>)]

(* Two pages whose title and description split one text at different bars. *)
BarInTitleDoc == [DocA EXCEPT !.h1 = S(<<"T", "|", "D">>), !.desc = S(<<"E">>)]

BarInDescDoc == [DocA EXCEPT !.h1 = S(<<"T">>), !.desc = S(<<"D", "|", "E">>)]

(* What the item's page may read at one time or another. *)
Editions == {DocA, NoProductDoc, NoneTitledDoc, BarInTitleDoc, BarInDescDoc}

InitEditions ==
    /\ width = RunWidth
    /\ retries = RETRIES
    /\ sem = width
    /\ runPc = "idle"
    /\ runNo = 0
    /\ clock = 0
    /\ agePending = FALSE
    /\ agedRun = 0
    /\ sinceAge = [pre |-> {}, k |-> 0]
    /\ disc = NoDiscovery
    /\ \E e \in Editions : web = OneItemSite @@ (ItemPage :> e)
    /\ api = NoRequest
    /\ sched = NoJob
    /\ script = NoScript
    /\ f = [c \in Callers |-> IdleFetch]
    /\ task = [t \in Tasks |-> IdleTask]
    /\ returned = <<>>
    /\ books = <<>>
    /\ snapshots = {}
    /\ change_log = {}

(* The site replaces the item's page after a run. *)
Republish ==
    /\ runPc \in {"returned", "aborted"}
    /\ \E e \in Editions \ {web[ItemPage]} : web' = [web EXCEPT ![ItemPage] = e]
    /\ UNCHANGED <<config, api, sched, script, sem, runPc, runNo, clock, agePending, agedRun, sinceAge,
                   disc, f, task, returned, ledger>>

NextEditions == Next \/ Republish

SpecEditions == InitEditions /\ [][NextEditions]_vars

(* C36 as stated: a pipeline finds its item unchanged only if the scraped
   record and the stored one agree on each of the nine tracked fields. *)
FoundUnchanged(t) ==
    task[t].pc = "find" /\ task'[t].pc = "done" /\ task'[t].kind = "unchanged"

C36_Original ==
    [][\A t \in Tasks :
          FoundUnchanged(t) => AgreeOnNine(books[task[t].data["_id"][2][1]], task[t].data)]_vars


-----------------------------------------------------------------------------
(* The stored fingerprint *)

(* C37: in every reachable state the content_hash of each stored item record
   is compute_hash_for_book of the nine tracked values stored in that record,
   also when two pipelines write the record of one id. *)
C37_StoredHashIsOfStoredFields ==
    \A id \in DOMAIN books :
        /\ NineFields \subseteq DOMAIN books[id]
        /\ books[id]["content_hash"] = compute_hash_for_book(books[id])

(* C37: the record of b1 was written by both pipelines of the first run and
   replaced by a pipeline of the second. *)
C37_Witness ==
    /\ "b1" \in DOMAIN books
    /\ books["b1"]["raw_snapshot_id"][2][2] = 2
    /\ \E d \in change_log : \E e \in change_log :
          /\ RunOf(d) = 1 /\ RunOf(e) = 1 /\ d # e
          /\ \E u \in change_log : RunOf(u) = 2 /\ u.change_type = "updated"


-----------------------------------------------------------------------------
(* Two invocations of run() that overlap: the one followed so far, and the
   run() that main() of another crawler process calls on the same database.
   The other run is followed through its age-out and up to the failure of its
   listing fetch, which ends it. *)

(* main() is started: c = Crawler(), and run() is called. *)
MainStart ==
    /\ script.pc = "idle"
    /\ script' = [script EXCEPT !.pc = "ageout"]
    /\ UNCHANGED <<crawling, web, api, sched, ledger>>

(* Its mark_all_changes_as_old() completes and its link discovery begins. *)
MainAgeOut ==
    /\ script.pc = "ageout"
    /\ change_log' = mark_all_changes_as_old(change_log)
    /\ script' = [script EXCEPT !.pc = "discover"]
    /\ UNCHANGED <<crawling, web, api, sched, books, snapshots>>

(* Its mark_all_changes_as_old() raises: run() raises, finally closes. *)
MainAgeOutError ==
    /\ script.pc = "ageout"
    /\ script' = [pc |-> "ended", seen |-> <<runPc, runNo>>]
    /\ UNCHANGED <<crawling, web, api, sched, ledger>>

(* Its fetch of the listing page is exhausted: the exception leaves
   get_all_book_links and run(), finally closes. *)
MainDiscoverRaise ==
    /\ script.pc = "discover"
    /\ script' = [pc |-> "ended", seen |-> <<runPc, runNo>>]
    /\ UNCHANGED <<crawling, web, api, sched, ledger>>

NextOverlap ==
    \/ Next
    \/ MainStart
    \/ MainAgeOut
    \/ MainAgeOutError
    \/ MainDiscoverRaise

SpecOverlap == Init /\ [][NextOverlap]_vars

InProgress == runPc \in {"ageout", "discover", "gather"}

(* C38 as stated: while a run is in progress every entry it appended is
   "new", and when the other run ended during a run that has since returned,
   the "new" entries are exactly the entries of that run. *)
C38_Original ==
    /\ InProgress => \A e \in change_log : RunOf(e) = runNo => e.recent = "new"
    /\ (script.pc = "ended" /\ script.seen[1] \in {"ageout", "discover", "gather"}
          /\ script.seen[2] = runNo /\ runPc = "returned")
           => NewEntries = {e \in change_log : RunOf(e) = runNo}


-----------------------------------------------------------------------------
(* A run that ends in link discovery *)

(* C39: a run that aborts during link discovery has aged the change log and
   written nothing else: when it has aborted every change-log entry is "old",
   and no step from its start to its abort changes books or snapshots, or
   the change log other than by the age-out. *)
C39_AbortInDiscoveryOnlyAgesOut ==
    /\ []((runPc = "aborted" /\ agedRun = runNo) => \A e \in change_log : e.recent = "old")
    /\ [][runPc' \in {"ageout", "discover", "aborted"}
             => /\ UNCHANGED <<books, snapshots>>
                /\ \/ UNCHANGED change_log
                   \/ /\ runPc = "ageout"
                      /\ change_log' = {[e EXCEPT !.recent = "old"] : e \in change_log}]_vars

(* C39: the second run aborted in its link discovery, after its age-out, with
   items stored and entries logged by the first run. *)
C39_Witness ==
    /\ runPc = "aborted"
    /\ runNo = 2
    /\ agedRun = 2
    /\ DOMAIN books = {"b1", "b2"}
    /\ Cardinality(change_log) = 2


-----------------------------------------------------------------------------
(* The report of scheduled_crawl *)

ReturnedSet == {returned[i] : i \in 1..Len(returned)}

(* What the one alert of a report over the entries read has to be. *)
AlertFits(read) ==
    /\ Len(sched.alerts) = 1
    /\ sched.alerts[1].subject = "No new changes detected" <=> read = {}
    /\ read # {} => /\ sched.alerts[1].subject = "new change(s) detected"
                    /\ sched.alerts[1].count = Cardinality(read)

(* C40 as stated: every invocation of generate_daily_report reads exactly the
   entries run() returned and sends exactly one alert. *)
C40_Original ==
    sched.reported = 1
        => /\ sched.read = <<ReturnedSet>>
           /\ AlertFits(ReturnedSet)

(* C40: a generate_daily_report whose read of the change log returns has read
   exactly the entries the run() just completed returned, and has sent
   exactly one alert: the no-change alert iff that set is empty, else the
   alert with the size of the set; a report whose read raises sends none. *)
C40_ReportIsOfTheRun ==
    /\ Len(sched.read) <= 1
    /\ sched.read # <<>>
           => /\ sched.reported = 1
              /\ sched.read[1] = ReturnedSet
              /\ AlertFits(sched.read[1])
    /\ sched.read = <<>> => sched.alerts = <<>>

(* C40: scheduled_crawl is over after a report of two changes. *)
C40_Witness ==
    /\ sched.pc = "done"
    /\ sched.read # <<>>
    /\ Cardinality(sched.read[1]) = 2
    /\ sched.alerts = <<[subject |-> "new change(s) detected", count |-> 2]>>

(* C40: scheduled_crawl is over after a report of no change. *)
C40_WitnessEmpty ==
    /\ sched.pc = "done"
    /\ sched.read = << {} >>
    /\ Len(sched.alerts) = 1


====
